---- MODULE Spec2Model ----
(***************************************************************************)
(* A model of PGDB's record aggregation and fan-in pipeline: the Interval  *)
(* rank sets, the aggregated records with their substitutions, and the     *)
(* front-end / back-end loops that move them.                              *)
(***************************************************************************)
EXTENDS Integers, Sequences, FiniteSets, TLC

VARIABLES orig, lists,
          msg_queue, msg_queue_lock, in_msg, tr_pc, issued, sent, net,
          handled, ran, be_quit, removed,
          reader, produced, pipe, upward,
          fe_pc, main_pc, remote_up, interrupted, quit, been_shutdown,
          node_joins, node_exits, wire, be_pc, be_handled, ncmds, hello_sent,
          exit_sent,
          receiver, posted, stream_out, inbox, rx_stack, recv_stash, multi_stash,
          delivered, rx_crashed,
          collect_perf, arrived, relay_in, relay_out,
          filters, requested, nfilter_msgs, last_record,
          load_file_lookup, gdb_semaphore, gdb_flag, gdb_request, gdb_waiting,
          gdb_mem, load_file_bins, load_files, current_load_file,
          sbd_decision, loaded_files, file_reads, fe_load_requests,
          be_file_data,
          varobjs, varprints,
          current_token, fe_cmd_msgs, mi_token, mi_handlers, gdb_outstanding,
          dispatched, ncommands,
          token_handlers, type_handlers, handler_id, registrations, removed_hids, last_handled,
          interval_lis, interval_self, interval_other, interval_op, interval_result,
          operands, merge_op, merge_results,
          fe_arec_list, output_history, processed, narecs, expanded,
          proc_msg, proc_result,
          parser_pc, last_parse, kept_parse, class_subtypes, class_fields, nparses,
          topo_pc, topo_result,
          rd_written, rd_pipe, rd_buffer, rd_parsed, rd_raised,
          fe_blocks, blk_last, blk_out,
          lock_holder, lock_depth, xport_pc, input_pc, stash_len, multi_left, lock_return

arecVars == <<orig, lists>>
cmdVars == <<msg_queue, msg_queue_lock, in_msg, tr_pc, issued, sent, net,
             handled, ran, be_quit, removed>>
ordVars == <<reader, produced, pipe, upward>>
lifeVars == <<fe_pc, main_pc, remote_up, interrupted, quit, been_shutdown,
              node_joins, node_exits, wire, be_pc, be_handled, ncmds, hello_sent,
              exit_sent>>
multiVars == <<receiver, posted, stream_out, inbox, rx_stack, recv_stash,
               multi_stash, delivered, rx_crashed>>
relayVars == <<collect_perf, arrived, relay_in, relay_out>>
filterVars == <<filters, requested, nfilter_msgs, last_record>>
sbdVars == <<load_file_lookup, gdb_semaphore, gdb_flag, gdb_request,
            gdb_waiting, gdb_mem, load_file_bins, load_files,
            current_load_file, sbd_decision, loaded_files, file_reads,
            fe_load_requests, be_file_data>>
varprintVars == <<varobjs, varprints>>
tokenVars == <<current_token, fe_cmd_msgs, mi_token, mi_handlers,
              gdb_outstanding, dispatched, ncommands>>
handlerVars == <<token_handlers, type_handlers, handler_id, registrations, removed_hids, last_handled>>
intervalVars == <<interval_lis, interval_self, interval_other, interval_op, interval_result>>
mergeVars == <<operands, merge_op, merge_results>>
historyVars == <<fe_arec_list, output_history, processed, narecs, expanded>>
procVars == <<proc_msg, proc_result>>
parserVars == <<parser_pc, last_parse, kept_parse, class_subtypes, class_fields, nparses>>
topoVars == <<topo_pc, topo_result>>
readerVars == <<rd_written, rd_pipe, rd_buffer, rd_parsed, rd_raised>>
blockVars == <<fe_blocks, blk_last, blk_out>>
lockVars == <<lock_holder, lock_depth, xport_pc, input_pc, stash_len, multi_left, lock_return>>
vars == <<arecVars, cmdVars, ordVars, lifeVars, multiVars, relayVars, filterVars,
          sbdVars, varprintVars, tokenVars,
          handlerVars,
          intervalVars,
          mergeVars,
          historyVars,
          procVars,
          parserVars,
          topoVars,
          readerVars,
          blockVars,
          lockVars>>

\* what the actions of one component leave alone
othersArec == <<cmdVars, ordVars, lifeVars, multiVars, relayVars, filterVars,
    sbdVars,
    varprintVars,
    tokenVars,
    handlerVars,
    intervalVars,
    mergeVars,
    historyVars,
    procVars,
    parserVars,
    topoVars,
    readerVars,
    blockVars,
    lockVars>>
othersCmd == <<arecVars, ordVars, lifeVars, multiVars, relayVars, filterVars,
    sbdVars,
    varprintVars,
    tokenVars,
    handlerVars,
    intervalVars,
    mergeVars,
    historyVars,
    procVars,
    parserVars,
    topoVars,
    readerVars,
    blockVars,
    lockVars>>
othersOrd == <<arecVars, cmdVars, lifeVars, multiVars, relayVars, filterVars,
    sbdVars,
    varprintVars,
    tokenVars,
    handlerVars,
    intervalVars,
    mergeVars,
    historyVars,
    procVars,
    parserVars,
    topoVars,
    readerVars,
    blockVars,
    lockVars>>
othersLife == <<arecVars, cmdVars, ordVars, multiVars, relayVars, filterVars,
    sbdVars,
    varprintVars,
    tokenVars,
    handlerVars,
    intervalVars,
    mergeVars,
    historyVars,
    procVars,
    parserVars,
    topoVars,
    readerVars,
    blockVars,
    lockVars>>
othersFilter == <<arecVars, cmdVars, ordVars, lifeVars, multiVars, relayVars,
    sbdVars,
    varprintVars,
    tokenVars,
    handlerVars,
    intervalVars,
    mergeVars,
    historyVars,
    procVars,
    parserVars,
    topoVars,
    readerVars,
    blockVars,
    lockVars>>
othersRelay == <<arecVars, cmdVars, ordVars, lifeVars, multiVars, filterVars,
    sbdVars,
    varprintVars,
    tokenVars,
    handlerVars,
    intervalVars,
    mergeVars,
    historyVars,
    procVars,
    parserVars,
    topoVars,
    readerVars,
    blockVars,
    lockVars>>
othersMulti == <<arecVars, cmdVars, ordVars, lifeVars, relayVars, filterVars,
    sbdVars,
    varprintVars,
    tokenVars,
    handlerVars,
    intervalVars,
    mergeVars,
    historyVars,
    procVars,
    parserVars,
    topoVars,
    readerVars,
    blockVars,
    lockVars>>
othersSBD == <<arecVars, cmdVars, ordVars, lifeVars, multiVars, relayVars,
    filterVars,
    varprintVars,
    tokenVars,
    handlerVars,
    intervalVars,
    mergeVars,
    historyVars,
    procVars,
    parserVars,
    topoVars,
    readerVars,
    blockVars,
    lockVars>>
othersVarprint == <<arecVars, cmdVars, ordVars, lifeVars, multiVars, relayVars,
    filterVars, sbdVars,
    tokenVars,
    handlerVars,
    intervalVars,
    mergeVars,
    historyVars,
    procVars,
    parserVars,
    topoVars,
    readerVars,
    blockVars,
    lockVars>>
othersHandler == <<arecVars, cmdVars, ordVars, lifeVars, multiVars, relayVars, filterVars, sbdVars, varprintVars, tokenVars,
    intervalVars,
    mergeVars,
    historyVars,
    procVars,
    parserVars,
    topoVars,
    readerVars,
    blockVars,
    lockVars>>

othersInterval == <<arecVars, cmdVars, ordVars, lifeVars, multiVars, relayVars, filterVars, sbdVars, varprintVars, tokenVars, handlerVars,
    mergeVars,
    historyVars,
    procVars,
    parserVars,
    topoVars,
    readerVars,
    blockVars,
    lockVars>>

othersMerge == <<arecVars, cmdVars, ordVars, lifeVars, multiVars, relayVars, filterVars, sbdVars, varprintVars, tokenVars, handlerVars, intervalVars,
    historyVars,
    procVars,
    parserVars,
    topoVars,
    readerVars,
    blockVars,
    lockVars>>

othersHistory == <<arecVars, cmdVars, ordVars, lifeVars, multiVars, relayVars, filterVars, sbdVars, varprintVars, tokenVars, handlerVars, intervalVars, mergeVars,
    procVars,
    parserVars,
    topoVars,
    readerVars,
    blockVars,
    lockVars>>

othersProc == <<arecVars, cmdVars, ordVars, lifeVars, multiVars, relayVars, filterVars, sbdVars, varprintVars, tokenVars, handlerVars, intervalVars, mergeVars, historyVars,
    parserVars,
    topoVars,
    readerVars,
    blockVars,
    lockVars>>

othersParser == <<arecVars, cmdVars, ordVars, lifeVars, multiVars, relayVars, filterVars, sbdVars, varprintVars, tokenVars, handlerVars, intervalVars, mergeVars, historyVars, procVars,
    topoVars,
    readerVars,
    blockVars,
    lockVars>>

othersTopo == <<arecVars, cmdVars, ordVars, lifeVars, multiVars, relayVars, filterVars, sbdVars, varprintVars, tokenVars, handlerVars, intervalVars, mergeVars, historyVars, procVars, parserVars,
    readerVars,
    blockVars,
    lockVars>>

othersReader == <<arecVars, cmdVars, ordVars, lifeVars, multiVars, relayVars, filterVars, sbdVars, varprintVars, tokenVars, handlerVars, intervalVars, mergeVars, historyVars, procVars, parserVars, topoVars,
    blockVars,
    lockVars>>

othersBlock == <<arecVars, cmdVars, ordVars, lifeVars, multiVars, relayVars, filterVars, sbdVars, varprintVars, tokenVars, handlerVars, intervalVars, mergeVars, historyVars, procVars, parserVars, topoVars, readerVars,
    lockVars>>

othersLock == <<arecVars, cmdVars, ordVars, lifeVars, multiVars, relayVars, filterVars, sbdVars, varprintVars, tokenVars, handlerVars, intervalVars, mergeVars, historyVars, procVars, parserVars, topoVars, readerVars, blockVars>>

othersToken == <<arecVars, cmdVars, ordVars, lifeVars, multiVars, relayVars,
    filterVars, sbdVars, varprintVars,
    handlerVars,
    intervalVars,
    mergeVars,
    historyVars,
    procVars,
    parserVars,
    topoVars,
    readerVars,
    blockVars,
    lockVars>>

(***************************************************************************)
(* Bounds of the model.                                                    *)
(***************************************************************************)
NumRanks == 3
NumBE == 2
MaxCmds == 2
MaxRecords == 4

Ranks == 0 .. (NumRanks - 1)
None == [k |-> "none", v |-> 0]

Max2(a, b) == IF a >= b THEN a ELSE b
Min2(a, b) == IF a <= b THEN a ELSE b

(***************************************************************************)
(* interval.py: an Interval is its list of (lo, hi) tuples.                *)
(***************************************************************************)
RECURSIVE CompressIntervals(_, _, _)
CompressIntervals(rest, cur, acc) ==
    IF rest = <<>> THEN Append(acc, cur)
    ELSE IF Head(rest)[1] = cur[2] + 1
         THEN CompressIntervals(Tail(rest), <<cur[1], Head(rest)[2]>>, acc)
         ELSE CompressIntervals(Tail(rest), Head(rest), Append(acc, cur))

\* Interval(intervals = ..., is_sorted = True)
IntervalOfIntervals(intervals) ==
    IF intervals = <<>> THEN <<>>
    ELSE CompressIntervals(Tail(intervals), Head(intervals), <<>>)

RECURSIVE CompressLis(_, _, _, _)
CompressLis(rest, cur_min, cur_max, acc) ==
    IF rest = <<>> THEN Append(acc, <<cur_min, cur_max>>)
    ELSE IF Head(rest) = cur_max + 1
         THEN CompressLis(Tail(rest), cur_min, cur_max + 1, acc)
         ELSE CompressLis(Tail(rest), Head(rest), Head(rest),
                          Append(acc, <<cur_min, cur_max>>))

\* Interval(lis = ..., is_sorted = True)
IntervalOfSortedLis(lis) ==
    IF lis = <<>> THEN <<>>
    ELSE CompressLis(Tail(lis), Head(lis), Head(lis), <<>>)

\* _binary_search_intervals / in_interval / __contains__
RECURSIVE BinarySearch(_, _, _, _)
BinarySearch(intervals, i, low, high) ==
    IF low < high
    THEN LET mid == (low + high) \div 2
             v == intervals[mid + 1]
         IN  IF i < v[1] THEN BinarySearch(intervals, i, low, mid)
             ELSE IF i > v[2] THEN BinarySearch(intervals, i, mid + 1, high)
             ELSE TRUE
    ELSE FALSE

in_interval(intervals, i) == BinarySearch(intervals, i, 0, Len(intervals))

\* members(): every integer of every stored tuple, in storage order.
RECURSIVE members(_)
members(intervals) ==
    IF intervals = <<>> THEN <<>>
    ELSE LET h == Head(intervals)
         IN  [j \in 1 .. (Max2(h[2] - h[1], 0) + 1) |-> h[1] + j - 1]
             \o members(Tail(intervals))

SeqToSet(s) == {s[j] : j \in 1 .. Len(s)}
MemberSet(intervals) == SeqToSet(members(intervals))

\* __len__: the number of tuples stored, not the number of integers.
IntervalLen(intervals) == Len(intervals)

_interval_intersect(a, b) == a[1] <= b[2] /\ b[1] <= a[2]
_union_intersecting_intervals(a, b) == <<Min2(a[1], b[1]), Max2(a[2], b[2])>>

\* The while loop of union(); i and k are the 0-based indices of the code.
RECURSIVE UnionLoop(_, _, _, _, _, _)
UnionLoop(s, o, i, k, cur, new) ==
    IF ~(i < Len(s) \/ k < Len(o)) THEN new
    ELSE
      LET si == s[i + 1]
          iHit == i < Len(s) /\ _interval_intersect(si, cur)
          iBefore == i < Len(s) /\ ~iHit /\ si[2] < cur[1]
          pasti == ~iHit /\ ~iBefore
          cur1 == IF iHit THEN _union_intersecting_intervals(si, cur) ELSE cur
          new1 == IF iBefore THEN Append(new, si) ELSE new
          i1 == IF iHit \/ iBefore THEN i + 1 ELSE i
          ok == o[k + 1]
          kHit == k < Len(o) /\ _interval_intersect(ok, cur1)
          kBefore == k < Len(o) /\ ~kHit /\ ok[2] < cur1[1]
          pastk == ~kHit /\ ~kBefore
          cur2 == IF kHit THEN _union_intersecting_intervals(ok, cur1) ELSE cur1
          new2 == IF kBefore THEN Append(new1, ok) ELSE new1
          k1 == IF kHit \/ kBefore THEN k + 1 ELSE k
      IN  IF pasti /\ pastk
          THEN UnionLoop(s, o, i1, k1,
                         IF i1 < Len(s) THEN s[i1 + 1]
                         ELSE IF k1 < Len(o) THEN o[k1 + 1] ELSE cur2,
                         Append(new2, cur2))
          ELSE IF i1 = Len(s) /\ k1 = Len(o)
               THEN UnionLoop(s, o, i1, k1, cur2, Append(new2, cur2))
               ELSE UnionLoop(s, o, i1, k1, cur2, new2)

\* union() / __add__.  With other empty the code returns the bare list of
\* tuples, with self empty it returns the empty Interval.
union(s, o) ==
    IF IntervalLen(o) = 0 THEN s
    ELSE IF IntervalLen(s) = 0 THEN <<>>
    ELSE IntervalOfIntervals(UnionLoop(s, o, 1, 0, s[1], <<>>))

(***************************************************************************)
(* Record values.  A leaf of a record is a string or a list of strings;    *)
(* merge_substitution turns a list into a tuple to use it as a dict key,   *)
(* and Python never finds a list equal to a tuple.                         *)
(***************************************************************************)
StrA == [k |-> "str", v |-> "a"]
StrB == [k |-> "str", v |-> "b"]
ListA == [k |-> "list", v |-> "a"]
Vals == {StrA, StrB, ListA}

_is_list(v) == v.k = "list"
\* d = tuple(v) if _is_list(v) else v
CounterKey(v) == IF _is_list(v) THEN [k |-> "tuple", v |-> v.v] ELSE v

EmptyDict == [r \in {} |-> None]
DictUpdate(d, e) ==
    [r \in (DOMAIN d) \cup (DOMAIN e) |-> IF r \in DOMAIN e THEN e[r] ELSE d[r]]
DictRestrict(d, S) == [r \in S |-> d[r]]
DictValues(d) == {d[r] : r \in DOMAIN d}

(***************************************************************************)
(* gdbmiarec.py: Substitution.  An aggregated record is                    *)
(*   names - the field names of the record skeleton, keys 1..n in place of *)
(*           the leaves,                                                   *)
(*   ids   - the Interval of ranks,                                        *)
(*   subs  - key -> [d |-> default, o |-> dict rank -> value].             *)
(***************************************************************************)
\* GDBMIAggregatedRecord(record, vid): _aggregate_record / _do_substitution
GDBMIAggregatedRecord(record, vid) ==
    [names |-> record.names,
     ids |-> IntervalOfSortedLis(<<vid>>),
     subs |-> [k \in 1 .. Len(record.vals) |-> [d |-> record.vals[k], o |-> EmptyDict]]]

get_num_substitutions(arec) == Len(arec.subs)

\* get_substitution(key, vid)
get_substitution(arec, key, vid) ==
    IF vid \in DOMAIN arec.subs[key].o THEN arec.subs[key].o[vid]
    ELSE arec.subs[key].d

\* get_record(vid): _undo_substitution over the skeleton
get_record(arec, vid) ==
    [names |-> arec.names,
     vals |-> [k \in 1 .. Len(arec.subs) |-> get_substitution(arec, k, vid)]]

\* counter_dict of merge_substitution: key -> number of dict entries
CounterKeys(md, od) == {CounterKey(v) : v \in DictValues(md) \cup DictValues(od)}
CounterCount(md, od, key) ==
    Cardinality({r \in DOMAIN md : CounterKey(md[r]) = key})
    + Cardinality({r \in DOMAIN od : CounterKey(od[r]) = key})
\* the keys max() may return: those of maximal count
MaxKeys(md, od) ==
    {key \in CounterKeys(md, od) :
        \A other \in CounterKeys(md, od) :
            CounterCount(md, od, other) <= CounterCount(md, od, key)}

\* "Move old non-max values to new dict": entries with v != max_value
NonMaxEntries(d, max_value) ==
    DictRestrict(d, {r \in DOMAIN d : d[r] # max_value})

\* a merge that forgets to move the old defaults into the new dict
OldDefaultsForgotten(ids, old_dict, old_default) == EmptyDict

\* "Move old defaults to new dict": for vid in ids: if vid not in old_dict
OldDefaults(ids, old_dict, old_default) ==
    [r \in {m \in MemberSet(ids) : m \notin DOMAIN old_dict} |-> old_default]

\* the final passthrough: delete the entries equal to the new default
DropDefaults(new_default, new_dict) ==
    [d |-> new_default,
     o |-> DictRestrict(new_dict, {r \in DOMAIN new_dict : new_dict[r] # new_default})]

\* the three "Replace old default with this new value" blocks
ReplaceDefault(my, other, ms, os, max_value) ==
    DropDefaults(max_value,
        DictUpdate(DictUpdate(DictUpdate(NonMaxEntries(ms.o, max_value),
                                         NonMaxEntries(os.o, max_value)),
                              OldDefaults(my.ids, ms.o, ms.d)),
                   OldDefaults(other.ids, os.o, os.d)))

\* merge_substitution(other, my_key, other_key); max_value is what max() returned
merge_substitution(my, other, my_key, other_key, max_value) ==
    LET ms == my.subs[my_key]
        os == other.subs[other_key]
        num_my_ids == IntervalLen(my.ids)
        num_other_ids == IntervalLen(other.ids)
        my_default_count == num_my_ids - Cardinality(DOMAIN ms.o)
        other_default_count == num_other_ids - Cardinality(DOMAIN os.o)
        max_count == CounterCount(ms.o, os.o, max_value)
        both == DictUpdate(ms.o, os.o)
    IN  IF CounterKeys(ms.o, os.o) = {}
        THEN IF ms.d = os.d THEN [d |-> ms.d, o |-> ms.o]
             ELSE IF my_default_count >= other_default_count
                  THEN [d |-> ms.d,
                        o |-> DictUpdate(ms.o, [r \in MemberSet(other.ids) |-> os.d])]
                  ELSE [d |-> os.d,
                        o |-> DictUpdate(ms.o, [r \in MemberSet(my.ids) |-> ms.d])]
        ELSE IF ms.d = os.d
             THEN IF max_count > my_default_count + other_default_count
                  THEN ReplaceDefault(my, other, ms, os, max_value)
                  ELSE DropDefaults(ms.d, both)
             ELSE IF my_default_count > other_default_count
                  THEN IF max_count > my_default_count
                       THEN ReplaceDefault(my, other, ms, os, max_value)
                       ELSE DropDefaults(ms.d,
                                DictUpdate(both, OldDefaults(other.ids, os.o, os.d)))
                  ELSE IF max_count > other_default_count
                       THEN ReplaceDefault(my, other, ms, os, max_value)
                       ELSE DropDefaults(os.d,
                                DictUpdate(both, OldDefaults(my.ids, ms.o, ms.d)))

\* what max() may return for each key of a merge of my and other
MaxChoices(my, other) ==
    {mv \in [1 .. Len(my.subs) -> {CounterKey(v) : v \in Vals} \cup {None}] :
        \A k \in 1 .. Len(my.subs) :
            LET keys == MaxKeys(my.subs[k].o, other.subs[k].o)
            IN  IF keys = {} THEN mv[k] = None ELSE mv[k] \in keys}

\* combine_substitutions (identity key_map) and combine_aggregations: arec1
\* merged in place with arec2, one outcome per value max() may return
combine_aggregations(arec1, arec2) ==
    {[names |-> arec1.names,
      ids |-> union(arec1.ids, arec2.ids),
      subs |-> [k \in 1 .. Len(arec1.subs) |->
                   merge_substitution(arec1, arec2, k, k, mv[k])]] :
        mv \in MaxChoices(arec1, arec2)}

(***************************************************************************)
(* gdbmi_identifier.py: identify() of a done result record, the record     *)
(* type followed by the matches of its keys in result_done_iders.          *)
(***************************************************************************)
result_done_iders ==
    [value |-> "value", bkpt |-> "breakpoint-created", frame |-> "frame"]

RECURSIVE identify_result_done(_)
identify_result_done(names) ==
    IF names = <<>> THEN <<>>
    ELSE (IF Head(names) \in DOMAIN result_done_iders
          THEN <<result_done_iders[Head(names)]>> ELSE <<>>)
         \o identify_result_done(Tail(names))

identify(names) == <<"RESULT", "done">> \o identify_result_done(names)

(***************************************************************************)
(* combine_aggregation_lists(l1, l2).  type_dict is kept as a list of      *)
(* <<ident, arec>> pairs, one per ident, a later arec of l1 replacing an   *)
(* earlier one of the same ident.                                          *)
(***************************************************************************)
TdHas(td, ident) == \E j \in 1 .. Len(td) : td[j][1] = ident
TdGet(td, ident) == td[CHOOSE j \in 1 .. Len(td) : td[j][1] = ident][2]
TdPut(td, ident, v) ==
    IF TdHas(td, ident)
    THEN [j \in 1 .. Len(td) |-> IF td[j][1] = ident THEN <<ident, v>> ELSE td[j]]
    ELSE Append(td, <<ident, v>>)
TdDel(td, ident) == SelectSeq(td, LAMBDA e : e[1] # ident)

\* for v in l1: type_dict[tuple(identifier.identify(v.record))] = v
RECURSIVE TypeDict(_, _)
TypeDict(l1, td) ==
    IF l1 = <<>> THEN td
    ELSE TypeDict(Tail(l1), TdPut(td, identify(Head(l1).names), Head(l1)))

\* the loop over l2, then the arecs left in type_dict
RECURSIVE CombineLoop(_, _, _)
CombineLoop(td, rest, l) ==
    IF rest = <<>> THEN {l \o [j \in 1 .. Len(td) |-> td[j][2]]}
    ELSE LET v == Head(rest)
             ident == identify(v.names)
         IN  IF TdHas(td, ident)
                /\ get_num_substitutions(v) = get_num_substitutions(TdGet(td, ident))
             THEN UNION {CombineLoop(TdDel(td, ident), Tail(rest), Append(l, m)) :
                            m \in combine_aggregations(TdGet(td, ident), v)}
             ELSE CombineLoop(td, Tail(rest), Append(l, v))

\* the lists combine_aggregation_lists(l1, l2) may return
combine_aggregation_lists(l1, l2) == CombineLoop(TypeDict(l1, <<>>), l2, <<>>)

(***************************************************************************)
(* The aggregation pipeline: every rank's debugger produces one record,    *)
(* its back-end wraps it as a single-rank aggregated record, and relays    *)
(* and the front-end combine the lists they receive.                       *)
(*   orig  - rank -> the record the rank contributed (None before)         *)
(*   lists - the lists of aggregated records in flight                     *)
(***************************************************************************)
Shapes == {<<"value">>, <<"value", "x">>, <<"value", "y">>}
FieldVals == [value |-> {StrA, StrB, ListA}, x |-> {StrA}, y |-> {StrB}]
Records ==
    UNION {{[names |-> n, vals |-> vs] :
               vs \in {f \in [1 .. Len(n) -> Vals] :
                          \A k \in 1 .. Len(n) : f[k] \in FieldVals[n[k]]}} :
           n \in Shapes}

InitArec ==
    /\ orig = [r \in Ranks |-> None]
    /\ lists = {}

\* gdbbe.py main loop: a record of rank r is wrapped and sent upward
Emit(r, rec) ==
    /\ orig[r] = None
    /\ orig' = [orig EXCEPT ![r] = rec]
    /\ lists' = lists \cup {<<GDBMIAggregatedRecord(rec, r)>>}
    /\ UNCHANGED othersArec

\* filter_hook / out_handler: two lists are combined into one
Combine(l1, l2) ==
    /\ l1 # l2
    /\ \E out \in combine_aggregation_lists(l1, l2) :
          lists' = (lists \ {l1, l2}) \cup {out}
    /\ UNCHANGED <<orig, othersArec>>

NextArec ==
    \/ \E r \in Ranks, rec \in Records : Emit(r, rec)
    \/ \E l1 \in lists, l2 \in lists : Combine(l1, l2)

(***************************************************************************)
(* Command delivery (pgdb/src/gdbfe.py, pgdb/src/gdbbe.py).  The input     *)
(* thread queues messages, the transport thread drains the queue and sends *)
(* each message on a stream, and every back-end handles the messages that  *)
(* reach it, one per turn of its main loop.  Remote initialisation is      *)
(* over.  The overlay delivers to a back-end the frames the front-end      *)
(* sent at it in the order they were sent.                                 *)
(*   msg_queue      - the deque of queued messages                         *)
(*   msg_queue_lock - "free", or the thread that holds the lock            *)
(*   in_msg         - the message queue_msg is about to append, or NoMsg   *)
(*   tr_pc          - "loop" or "drain": where remote_body is              *)
(*   issued         - the messages handed to queue_msg, in order           *)
(*   sent           - the ids of the messages put on a stream, in order    *)
(*   net            - back-end -> the messages on their way to it          *)
(*   handled        - back-end -> the ids its cmd_handler has handled      *)
(*   ran            - rank -> the ids of the commands its debugger ran     *)
(*   be_quit        - back-end -> its quit flag                            *)
(*   removed        - the back-ends whose exit the front-end has seen      *)
(***************************************************************************)
BackEnds == 0 .. (NumBE - 1)
\* create_rank_mapping: the daemon that hosts a rank
mpirank_to_mrnrank == [r \in Ranks |-> r % NumBE]
\* the debuggers of back-end b (GDBBE.gdb)
gdb(b) == {r \in Ranks : mpirank_to_mrnrank[r] = b}
\* self.all_ranks = Interval(lis = self.mpiranks)
all_ranks == IntervalOfSortedLis([j \in 1 .. NumRanks |-> j - 1])

NoMsg == [id |-> 0, rank |-> [k |-> "int", v |-> 0], cmd |-> "none"]

\* list.sort(key = lambda x: x[0]), a stable sort
RECURSIVE InsertByLo(_, _)
InsertByLo(sorted, t) ==
    IF sorted = <<>> THEN <<t>>
    ELSE IF t[1] < Head(sorted)[1] THEN <<t>> \o sorted
         ELSE <<Head(sorted)>> \o InsertByLo(Tail(sorted), t)
RECURSIVE SortByLo(_)
SortByLo(groups) ==
    IF groups = <<>> THEN <<>>
    ELSE InsertByLo(SortByLo(SubSeq(groups, 1, Len(groups) - 1)),
                    groups[Len(groups)])

\* parse_proc_spec: "all" gives the integer -1, a list of groups an Interval
parse_proc_spec(proc_spec) ==
    IF proc_spec.all THEN [k |-> "int", v |-> -1]
    ELSE [k |-> "interval", v |-> IntervalOfIntervals(SortByLo(proc_spec.groups))]

\* the processor specifications a user types
ProcSpecs ==
    {[all |-> TRUE, groups |-> <<>>],
     [all |-> FALSE, groups |-> <<<<1, 1>>>>],
     [all |-> FALSE, groups |-> <<<<1, 2>>, <<0, 1>>>>],
     [all |-> FALSE, groups |-> <<<<1, 1>>, <<NumRanks, NumRanks>>>>]}
\* what a queued message may be addressed at
Targets ==
    {[k |-> "interval", v |-> all_ranks]}
        \cup {parse_proc_spec(ps) : ps \in ProcSpecs}
Cmds == {"exec_next", "quit"}

\* Interval.__eq__: all() over zip() of the two lists of tuples
IntervalEq(a, b) == \A j \in 1 .. Min2(Len(a), Len(b)) : a[j] = b[j]

\* msg_rank_to_list
msg_rank_to_list(msg_rank) ==
    IF msg_rank.k = "int" THEN <<msg_rank.v>> ELSE members(msg_rank.v)

\* send_msg: the back-ends of the stream msg is sent on, none for a bad rank
send_msg(msg) ==
    IF msg.rank.k = "interval" /\ IntervalEq(msg.rank.v, all_ranks)
    THEN [sends |-> TRUE, to |-> BackEnds]
    ELSE LET rank_list == msg_rank_to_list(msg.rank)
         IN  IF \E j \in 1 .. Len(rank_list) : rank_list[j] \notin Ranks
             THEN [sends |-> FALSE, to |-> {}]
             ELSE [sends |-> TRUE,
                   to |-> {mpirank_to_mrnrank[rank_list[j]] : j \in 1 .. Len(rank_list)}]

Count(seq, x) == Cardinality({j \in 1 .. Len(seq) : seq[j] = x})
Repeat(x, n) == [j \in 1 .. n |-> x]

InitCmd ==
    /\ msg_queue = <<>>
    /\ msg_queue_lock = "free"
    /\ in_msg = NoMsg
    /\ tr_pc = "loop"
    /\ issued = <<>>
    /\ sent = <<>>
    /\ net = [b \in BackEnds |-> <<>>]
    /\ handled = [b \in BackEnds |-> <<>>]
    /\ ran = [r \in Ranks |-> <<>>]
    /\ be_quit = [b \in BackEnds |-> FALSE]
    /\ removed = {}

\* queue_msg, entering "with self.msg_queue_lock"
queue_msg_lock(target, cmd) ==
    /\ in_msg = NoMsg
    /\ Len(issued) < MaxCmds
    /\ msg_queue_lock = "free"
    /\ LET msg == [id |-> Len(issued) + 1, rank |-> target, cmd |-> cmd]
       IN  /\ in_msg' = msg
           /\ issued' = Append(issued, msg)
    /\ msg_queue_lock' = "input"
    /\ UNCHANGED <<msg_queue, tr_pc, sent, net, handled, ran, be_quit, removed>>
    /\ UNCHANGED othersCmd

\* queue_msg: self.msg_queue.append(msg), and the lock is released
queue_msg_append ==
    /\ in_msg # NoMsg
    /\ msg_queue' = Append(msg_queue, in_msg)
    /\ in_msg' = NoMsg
    /\ msg_queue_lock' = "free"
    /\ UNCHANGED <<tr_pc, issued, sent, net, handled, ran, be_quit, removed>>
    /\ UNCHANGED othersCmd

\* remote_body: "while not self.quit", then "with self.msg_queue_lock"
remote_body_lock ==
    /\ tr_pc = "loop"
    /\ removed # BackEnds
    /\ msg_queue_lock = "free"
    /\ msg_queue_lock' = "transport"
    /\ tr_pc' = "drain"
    /\ UNCHANGED <<msg_queue, in_msg, issued, sent, net, handled, ran, be_quit, removed>>
    /\ UNCHANGED othersCmd

\* remote_body: self.send_msg(self.msg_queue.popleft())
remote_body_send ==
    /\ tr_pc = "drain"
    /\ msg_queue # <<>>
    /\ LET msg == Head(msg_queue)
           stream == send_msg(msg)
       IN  /\ msg_queue' = Tail(msg_queue)
           /\ sent' = IF stream.sends THEN Append(sent, msg.id) ELSE sent
           /\ net' = [b \in BackEnds |->
                         IF b \in stream.to THEN Append(net[b], msg) ELSE net[b]]
    /\ UNCHANGED <<msg_queue_lock, in_msg, tr_pc, issued, handled, ran, be_quit, removed>>
    /\ UNCHANGED othersCmd

\* remote_body: the queue is empty, the lock is released
remote_body_unlock ==
    /\ tr_pc = "drain"
    /\ msg_queue = <<>>
    /\ msg_queue_lock' = "free"
    /\ tr_pc' = "loop"
    /\ UNCHANGED <<msg_queue, in_msg, issued, sent, net, handled, ran, be_quit, removed>>
    /\ UNCHANGED othersCmd

\* gdb_run_cmd on back-end b: once per entry of the rank list that is a
\* debugger of b
gdb_run_cmd(b, msg) ==
    LET ranks == msg_rank_to_list(msg.rank)
    IN  [r \in Ranks |->
            IF r \in gdb(b) THEN ran[r] \o Repeat(msg.id, Count(ranks, r))
            ELSE ran[r]]

\* GDBBE.main of back-end b: one message received, then cmd_handler
cmd_handler(b) ==
    /\ ~be_quit[b]
    /\ net[b] # <<>>
    /\ LET msg == Head(net[b])
       IN  /\ be_quit' = [be_quit EXCEPT ![b] = (msg.cmd = "quit")]
           /\ ran' = gdb_run_cmd(b, msg)
           /\ handled' = [handled EXCEPT ![b] = Append(@, msg.id)]
    /\ net' = [net EXCEPT ![b] = Tail(@)]
    /\ UNCHANGED <<msg_queue, msg_queue_lock, in_msg, tr_pc, issued, sent, removed>>
    /\ UNCHANGED othersCmd

\* node_removed_callback: back-end b has left the main loop and exited
node_removed_callback(b) ==
    /\ be_quit[b]
    /\ b \notin removed
    /\ removed' = removed \cup {b}
    /\ UNCHANGED <<msg_queue, msg_queue_lock, in_msg, tr_pc, issued, sent, net,
                   handled, ran, be_quit>>
    /\ UNCHANGED othersCmd

NextCmd ==
    \/ \E target \in Targets, cmd \in Cmds : queue_msg_lock(target, cmd)
    \/ queue_msg_append
    \/ remote_body_lock
    \/ remote_body_send
    \/ remote_body_unlock
    \/ \E b \in BackEnds : cmd_handler(b)
    \/ \E b \in BackEnds : node_removed_callback(b)

(***************************************************************************)
(* Reading a debugger (mi/gdbmi.py, pgdb/src/mi/gdbmi.py, GDBBE.main).     *)
(* The debugger of one rank writes complete lines to its pipe, one record  *)
(* a line; each turn of the back-end's main loop reads what is in the      *)
(* pipe, parses it, and sends every record read() yields upward.  The      *)
(* repository holds two read() methods; reader says which one the          *)
(* back-end runs.                                                          *)
(*   reader   - "mi" (mi/gdbmi.py) or "pgdb_mi" (pgdb/src/mi/gdbmi.py),    *)
(*              "unset" until the back-end first reads                     *)
(*   produced - the records the debugger has written, in order             *)
(*   pipe     - the records written and not yet read                       *)
(*   upward   - the records sent upward, in order                          *)
(***************************************************************************)
Readers == {"mi", "pgdb_mi"}
RecordKinds == {"result", "oob"}

IsOOB(rec) == rec.kind = "oob"
IsResult(rec) == rec.kind = "result"

\* parse_output as mi/gdbmi.py uses it: (oob_records, result_records)
parse_output_split(before) == <<SelectSeq(before, IsOOB), SelectSeq(before, IsResult)>>
\* parse_output of pgdb/src/mi/gdbmi_parser.py: the records, one per line
parse_output(before) == before

\* mi/gdbmi.py read(): the out-of-band records, then the result records
read_mi(before) ==
    LET parsed == parse_output_split(before)
    IN  parsed[1] \o parsed[2]
\* pgdb/src/mi/gdbmi.py read(): the records as parsed
read_pgdb_mi(before) == parse_output(before)

read(rd, before) == IF rd = "mi" THEN read_mi(before) ELSE read_pgdb_mi(before)
\* the read() methods the back-end may be running
ReaderInUse == IF reader = "unset" THEN Readers ELSE {reader}

InitOrd ==
    /\ reader = "unset"
    /\ produced = <<>>
    /\ pipe = <<>>
    /\ upward = <<>>

\* the debugger writes one more line
gdb_write(kind) ==
    /\ Len(produced) < MaxRecords
    /\ LET rec == [n |-> Len(produced) + 1, kind |-> kind]
       IN  /\ produced' = Append(produced, rec)
           /\ pipe' = Append(pipe, rec)
    /\ UNCHANGED <<reader, upward>>
    /\ UNCHANGED othersOrd

\* GDBBE.main: for record in gdb.read(): send it upward
main_read ==
    /\ pipe # <<>>
    /\ \E rd \in ReaderInUse :
          /\ reader' = rd
          /\ upward' = upward \o read(rd, pipe)
    /\ pipe' = <<>>
    /\ UNCHANGED produced
    /\ UNCHANGED othersOrd

NextOrd ==
    \/ \E kind \in RecordKinds : gdb_write(kind)
    \/ main_read

(***************************************************************************)
(* Start-up and shutdown (src/gdbfe.py, CommunicatorFE, CommunicatorBE).   *)
(* The front-end's remote thread runs remote_init and the receive loop,    *)
(* its main thread waits for remote_up and runs the shell; every back-end  *)
(* joins the overlay, waits for hello and then handles what it receives.   *)
(* Communicator.send is taken by its contract in this component: the       *)
(* message is put on the stream it names.                                  *)
(*   fe_pc         - the remote thread: "init", "up", "loop", "shutdown",  *)
(*                   "down", "failing" or "failed"                         *)
(*   main_pc       - the main thread: "wait", "cmdloop", "quit_send" or    *)
(*                   "exit"                                                *)
(*   remote_up     - the event local_body waits for                        *)
(*   interrupted   - interrupt_main has signalled the main thread          *)
(*   quit          - GDBFE.quit                                            *)
(*   been_shutdown - Communicator.been_shutdown                            *)
(*   node_joins, node_exits - the counters of the overlay's callbacks      *)
(*   wire          - back-end -> the messages broadcast and not received   *)
(*   be_pc         - back-end: "down", "wait_hello", "live" or "exited"    *)
(*   be_handled    - back-end -> the commands it has handled               *)
(*   ncmds         - the number of user commands the shell has sent        *)
(*   hello_sent, exit_sent - hello / gdb-exit has been broadcast           *)
(***************************************************************************)
\* mrnet_network_size = len(node_info), one entry per back-end daemon
mrnet_network_size == NumBE

\* a barrier that lets init_mrnet go on whatever the join count is
NoWaitForNodes == TRUE

\* _wait_for_nodes: the test its loop ends on
_wait_for_nodes == node_joins = mrnet_network_size
\* all_nodes_exited
all_nodes_exited == node_exits = node_joins

\* the broadcast stream exists: _init_shared_mrnet has run and shutdown()
\* has not deleted the network; send raises without it
has_stream == fe_pc \in {"up", "loop", "shutdown"}

\* send(message, broadcast): the message on the way to every back-end
Broadcast(msg) == [b \in BackEnds |-> Append(wire[b], msg)]

InitLife ==
    /\ fe_pc = "init"
    /\ main_pc = "wait"
    /\ remote_up = FALSE
    /\ interrupted = FALSE
    /\ quit = FALSE
    /\ been_shutdown = FALSE
    /\ node_joins = 0
    /\ node_exits = 0
    /\ wire = [b \in BackEnds |-> <<>>]
    /\ be_pc = [b \in BackEnds |-> "down"]
    /\ be_handled = [b \in BackEnds |-> <<>>]
    /\ ncmds = 0
    /\ hello_sent = FALSE
    /\ exit_sent = FALSE

\* CommunicatorBE.init_mrnet up to _wait_for_hello: back-end b joins the
\* overlay, and _mrnet_node_joined_cb runs on the front-end
_mrnet_node_joined_cb(b) ==
    /\ be_pc[b] = "down"
    /\ fe_pc = "init"
    /\ be_pc' = [be_pc EXCEPT ![b] = "wait_hello"]
    /\ node_joins' = node_joins + 1
    /\ UNCHANGED <<fe_pc, main_pc, remote_up, interrupted, quit, been_shutdown,
                   node_exits, wire, be_handled, ncmds, hello_sent, exit_sent>>
    /\ UNCHANGED othersLife

\* remote_init: init_lmon or init_mrnet returns False before any back-end
\* has been started; self.remote_up.set()
remote_init_fails ==
    /\ fe_pc = "init"
    /\ node_joins = 0
    /\ fe_pc' = "failing"
    /\ remote_up' = TRUE
    /\ UNCHANGED <<main_pc, interrupted, quit, been_shutdown, node_joins, node_exits,
                   wire, be_pc, be_handled, ncmds, hello_sent, exit_sent>>
    /\ UNCHANGED othersLife

\* remote_init, failure path: self.interrupt_main(), return False
remote_init_interrupts ==
    /\ fe_pc = "failing"
    /\ interrupted' = TRUE
    /\ fe_pc' = "failed"
    /\ UNCHANGED <<main_pc, remote_up, quit, been_shutdown, node_joins, node_exits,
                   wire, be_pc, be_handled, ncmds, hello_sent, exit_sent>>
    /\ UNCHANGED othersLife

\* CommunicatorFE.init_mrnet: _wait_for_nodes, then _send_mrnet_hello
init_mrnet ==
    /\ fe_pc = "init"
    /\ _wait_for_nodes
    /\ wire' = Broadcast("hello")
    /\ hello_sent' = TRUE
    /\ fe_pc' = "up"
    /\ UNCHANGED <<main_pc, remote_up, interrupted, quit, been_shutdown,
                   node_joins, node_exits, be_pc, be_handled, ncmds, exit_sent>>
    /\ UNCHANGED othersLife

\* remote_body: remote_init returned True, self.remote_up.set()
remote_body_up ==
    /\ fe_pc = "up"
    /\ remote_up' = TRUE
    /\ fe_pc' = "loop"
    /\ UNCHANGED <<main_pc, interrupted, quit, been_shutdown, node_joins,
                   node_exits, wire, be_pc, be_handled, ncmds, hello_sent, exit_sent>>
    /\ UNCHANGED othersLife

\* remote_body: the test of "while not self.quit and not all_nodes_exited()"
\* fails and the loop is left
remote_body_leaves ==
    /\ fe_pc = "loop"
    /\ quit \/ all_nodes_exited
    /\ fe_pc' = "shutdown"
    /\ UNCHANGED <<main_pc, remote_up, interrupted, quit, been_shutdown, node_joins,
                   node_exits, wire, be_pc, be_handled, ncmds, hello_sent, exit_sent>>
    /\ UNCHANGED othersLife

\* remote_body: self.shutdown(), then self.interrupt_main()
shutdown ==
    /\ fe_pc = "shutdown"
    /\ been_shutdown' = TRUE
    /\ interrupted' = TRUE
    /\ fe_pc' = "down"
    /\ UNCHANGED <<main_pc, remote_up, quit, node_joins, node_exits, wire, be_pc,
                   be_handled, ncmds, hello_sent, exit_sent>>
    /\ UNCHANGED othersLife

\* local_body: self.remote_up.wait() returns and cmdloop starts, or the
\* pending interrupt ends the main thread
local_body ==
    /\ main_pc = "wait"
    /\ remote_up
    /\ main_pc' = IF interrupted THEN "exit" ELSE "cmdloop"
    /\ UNCHANGED <<fe_pc, remote_up, interrupted, quit, been_shutdown, node_joins,
                   node_exits, wire, be_pc, be_handled, ncmds, hello_sent, exit_sent>>
    /\ UNCHANGED othersLife

\* the interrupt reaches the shell: KeyboardInterrupt, sys.exit(0)
local_body_interrupted ==
    /\ main_pc \in {"cmdloop", "quit_send"}
    /\ interrupted
    /\ main_pc' = "exit"
    /\ UNCHANGED <<fe_pc, remote_up, interrupted, quit, been_shutdown, node_joins,
                   node_exits, wire, be_pc, be_handled, ncmds, hello_sent, exit_sent>>
    /\ UNCHANGED othersLife

\* dispatch_gdbmi_command: a user command is broadcast; is_shutdown()
\* makes it return False, a missing stream makes send raise and the shell end
dispatch_gdbmi_command ==
    /\ main_pc = "cmdloop"
    /\ ~interrupted
    /\ ~been_shutdown
    /\ ncmds < MaxCmds
    /\ IF has_stream
       THEN /\ ncmds' = ncmds + 1
            /\ wire' = Broadcast("cmd")
            /\ UNCHANGED main_pc
       ELSE /\ main_pc' = "exit"
            /\ UNCHANGED <<ncmds, wire>>
    /\ UNCHANGED <<fe_pc, remote_up, interrupted, quit, been_shutdown,
                   node_joins, node_exits, be_pc, be_handled, hello_sent, exit_sent>>
    /\ UNCHANGED othersLife

\* do_quit: self.quit = True
do_quit ==
    /\ main_pc = "cmdloop"
    /\ ~interrupted
    /\ ~quit
    /\ quit' = TRUE
    /\ main_pc' = "quit_send"
    /\ UNCHANGED <<fe_pc, remote_up, interrupted, been_shutdown, node_joins,
                   node_exits, wire, be_pc, be_handled, ncmds, hello_sent, exit_sent>>
    /\ UNCHANGED othersLife

\* do_quit: self.comm.send(gdb-exit, broadcast); after shutdown() there is
\* no network to send on
do_quit_send ==
    /\ main_pc = "quit_send"
    /\ ~interrupted
    /\ IF ~has_stream
       THEN /\ main_pc' = "exit"
            /\ UNCHANGED <<wire, exit_sent>>
       ELSE /\ wire' = Broadcast("gdb-exit")
            /\ exit_sent' = TRUE
            /\ main_pc' = "cmdloop"
    /\ UNCHANGED <<fe_pc, remote_up, interrupted, quit, been_shutdown, node_joins,
                   node_exits, be_pc, be_handled, ncmds, hello_sent>>
    /\ UNCHANGED othersLife

\* _wait_for_hello: the first message a back-end receives must be hello
_wait_for_hello(b) ==
    /\ be_pc[b] = "wait_hello"
    /\ ~been_shutdown
    /\ wire[b] # <<>>
    /\ be_pc' = [be_pc EXCEPT ![b] = IF Head(wire[b]) = "hello" THEN "live" ELSE "exited"]
    /\ wire' = [wire EXCEPT ![b] = Tail(@)]
    /\ UNCHANGED <<fe_pc, main_pc, remote_up, interrupted, quit, been_shutdown,
                   node_joins, node_exits, be_handled, ncmds, hello_sent, exit_sent>>
    /\ UNCHANGED othersLife

\* the back-end's main loop: a command is handled; gdb-exit ends the
\* debugger and the back-end
be_main(b) ==
    /\ be_pc[b] = "live"
    /\ ~been_shutdown
    /\ wire[b] # <<>>
    /\ be_handled' = [be_handled EXCEPT ![b] = Append(@, Head(wire[b]))]
    /\ be_pc' = [be_pc EXCEPT ![b] = IF Head(wire[b]) = "gdb-exit" THEN "exited" ELSE @]
    /\ wire' = [wire EXCEPT ![b] = Tail(@)]
    /\ UNCHANGED <<fe_pc, main_pc, remote_up, interrupted, quit, been_shutdown,
                   node_joins, node_exits, ncmds, hello_sent, exit_sent>>
    /\ UNCHANGED othersLife

\* _mrnet_node_removed_cb: the overlay reports one more node gone
_mrnet_node_removed_cb ==
    /\ node_exits < Cardinality({b \in BackEnds : be_pc[b] = "exited"})
    /\ node_exits' = node_exits + 1
    /\ UNCHANGED <<fe_pc, main_pc, remote_up, interrupted, quit, been_shutdown,
                   node_joins, wire, be_pc, be_handled, ncmds, hello_sent, exit_sent>>
    /\ UNCHANGED othersLife

NextLife ==
    \/ \E b \in BackEnds : _mrnet_node_joined_cb(b)
    \/ remote_init_fails
    \/ remote_init_interrupts
    \/ init_mrnet
    \/ remote_body_up
    \/ remote_body_leaves
    \/ shutdown
    \/ local_body
    \/ local_body_interrupted
    \/ dispatch_gdbmi_command
    \/ do_quit
    \/ do_quit_send
    \/ \E b \in BackEnds : _wait_for_hello(b)
    \/ \E b \in BackEnds : be_main(b)
    \/ _mrnet_node_removed_cb

(***************************************************************************)
(* Multi-part messages.  Two generations of the code are modelled, chosen  *)
(* by receiver ("unset" until the first message is sent):                  *)
(*   "comm"  - Communicator.send, _recv, recv and _recv_multi_message      *)
(*   "gdbfe" - GDBBE.mrnet_stream_send towards GDBFE.mrnet_recv, the main  *)
(*             loop and multi_handler                                      *)
(* In Communicator._recv the tag of a compressed frame is taken to be a    *)
(* value of its own, different from MSG_TAG.                               *)
(* A string is a sequence of symbols.                                      *)
(*   receiver    - the generation in use                                   *)
(*   posted      - source -> the messages it has sent, each with the       *)
(*                 string handed to the splitting step and its frames      *)
(*   stream_out  - source -> its frames still inside the overlay           *)
(*   inbox       - the frames in the order mrnet.recv will return them     *)
(*   rx_stack    - the multi-messages being rebuilt, innermost last        *)
(*   recv_stash, multi_stash - the stashes of the two receivers            *)
(*   delivered   - the messages handed to the handlers, in order           *)
(*   rx_crashed  - "no", or the exception that ended the receiving thread  *)
(***************************************************************************)
Receivers == {"comm", "gdbfe"}
Bytes == {"a", "b"}
MaxBody == 4
MaxSends == 1
multi_len == 6
compress_threshold == 5

Digit == <<"1", "2", "3", "4", "5", "6", "7", "8", "9">>
DigitVal(c) == CHOOSE n \in 1 .. Len(Digit) : Digit[n] = c
IsDigit(c) == \E n \in 1 .. Len(Digit) : Digit[n] = c
RankChar == <<"r0", "r1", "r2", "r3">>
\* the rank attribute of a message: its character in the pickled form
NoRank == "-"
rank_of(b) == RankChar[b + 1]

\* all strings over Bytes of length at most n
RECURSIVE StringsUpTo(_)
StringsUpTo(n) ==
    IF n = 0 THEN {<<>>}
    ELSE LET shorter == StringsUpTo(n - 1)
         IN shorter \cup {Append(t, c) : t \in {u \in shorter : Len(u) = n - 1}, c \in Bytes}
Bodies == StringsUpTo(MaxBody)

\* GDBMessage objects
GDBMessage(msg_type, rank, num, data) ==
    [msg_type |-> msg_type, rank |-> rank, num |-> num, data |-> data]
\* the value None where a message is expected
NoMessage == GDBMessage("None", NoRank, 0, <<>>)
OUT_MSG(rank, body) == GDBMessage("OUT_MSG", rank, 0, body)
MULTI_MSG(rank, num) == GDBMessage("MULTI_MSG", rank, num, <<>>)
MULTI_PAYLOAD_MSG(rank, payload) == GDBMessage("MULTI_PAYLOAD_MSG", rank, 0, payload)

\* cPickle.dumps(obj, 0): an opcode for the class, the attributes, STOP
dumps(obj) ==
    CASE obj.msg_type = "OUT_MSG" -> <<"O", obj.rank>> \o obj.data \o <<".">>
      [] obj.msg_type = "MULTI_MSG" -> <<"M", obj.rank, Digit[obj.num], ".">>
      [] obj.msg_type = "MULTI_PAYLOAD_MSG" -> <<"Y", obj.rank>> \o obj.data \o <<".">>

\* cPickle.loads(s): the object, or UnpicklingError for a string that is
\* not a pickle
UnpicklingError == GDBMessage("UnpicklingError", NoRank, 0, <<>>)
loads(s) ==
    IF Len(s) < 3 \/ s[Len(s)] # "." THEN UnpicklingError
    ELSE LET content == SubSeq(s, 3, Len(s) - 1)
         IN CASE s[1] = "O" /\ \A i \in 1 .. Len(content) : content[i] \in Bytes
                     -> OUT_MSG(s[2], content)
              [] s[1] = "M" /\ Len(content) = 1 /\ IsDigit(content[1])
                     -> MULTI_MSG(s[2], DigitVal(content[1]))
              [] s[1] = "Y" -> MULTI_PAYLOAD_MSG(s[2], content)
              [] OTHER -> UnpicklingError

\* the length of the run of equal characters s starts with
RECURSIVE RunLength(_)
RunLength(s) ==
    IF Len(s) <= 1 THEN Len(s)
    ELSE IF s[2] = s[1] THEN 1 + RunLength(Tail(s)) ELSE 1

\* zlib.compress(s, 1): a header, then every run of n > 1 equal characters
\* as the character and n; output can be shorter or longer than the input
RECURSIVE Deflate(_)
Deflate(s) ==
    IF s = <<>> THEN <<>>
    ELSE LET n == RunLength(s)
         IN (IF n = 1 THEN <<s[1]>> ELSE <<s[1], Digit[n]>>)
               \o Deflate(SubSeq(s, n + 1, Len(s)))
zlib_compress(s) == <<"Z">> \o Deflate(s)

\* Communicator._compress_msg
_compress_msg(msg) ==
    IF Len(msg) >= compress_threshold
    THEN [msg |-> zlib_compress(msg), tag |-> "COMP_TAG"]
    ELSE [msg |-> msg, tag |-> "MSG_TAG"]

\* [msg[i:i + split_len] for i in range(0, len(msg), split_len)]
Slices(msg, split_len) ==
    [i \in 1 .. ((Len(msg) + split_len - 1) \div split_len) |->
        SubSeq(msg, (i - 1) * split_len + 1,
               IF i * split_len < Len(msg) THEN i * split_len ELSE Len(msg))]

\* Communicator._multi_payload_split
_multi_payload_split(msg) ==
    IF Len(msg) > multi_len
    THEN LET payloads == Slices(msg, multi_len)
         IN <<dumps(MULTI_MSG(NoRank, Len(payloads)))>>
               \o [i \in 1 .. Len(payloads) |-> dumps(MULTI_PAYLOAD_MSG(NoRank, payloads[i]))]
    ELSE <<msg>>

\* Communicator.send: the frames put on the stream, every one with the tag
\* _compress_msg returned
send(source, message) ==
    LET c == _compress_msg(dumps(message))
        send_list == _multi_payload_split(c.msg)
    IN [i \in 1 .. Len(send_list) |->
           [src |-> source, tag |-> c.tag, data |-> send_list[i]]]

\* GDBBE.mrnet_stream_send: the frames put on the stream
RECURSIVE mrnet_stream_send(_, _)
RECURSIVE SendPayloads(_, _, _, _)
SendPayloads(source, rank, payloads, i) ==
    IF i > Len(payloads) THEN <<>>
    ELSE mrnet_stream_send(source, MULTI_PAYLOAD_MSG(rank, payloads[i]))
            \o SendPayloads(source, rank, payloads, i + 1)
mrnet_stream_send(source, message) ==
    LET msg == dumps(message)
        split_len == multi_len \div 2
    IN IF Len(msg) > multi_len
       THEN LET payloads == Slices(msg, split_len)
            IN mrnet_stream_send(source, MULTI_MSG(message.rank, Len(payloads)))
                  \o SendPayloads(source, message.rank, payloads, 1)
       ELSE <<[src |-> source, tag |-> "MSG_TAG", data |-> msg]>>

\* the string the sender hands to its splitting step
SplitInput(rc, message) ==
    IF rc = "comm" THEN _compress_msg(dumps(message)).msg ELSE dumps(message)

\* Communicator._recv: the message of one frame, or the exception raised
UnboundLocalError == GDBMessage("UnboundLocalError", NoRank, 0, <<>>)
_recv(frame) ==
    IF frame.tag = "COMP_TAG" THEN UnboundLocalError ELSE loads(frame.data)

\* GDBFE.mrnet_recv: the message of one frame
mrnet_recv(frame) == loads(frame.data)

IsException(m) == m.msg_type \in {"UnpicklingError", "UnboundLocalError"}

\* multi_handler's scan of multi_stash for a payload of rank: the index
\* found, 0 for none, or -1 when an entry without a rank is reached
RECURSIVE ScanStash(_, _, _)
ScanStash(stash, rank, i) ==
    IF i > Len(stash) THEN 0
    ELSE IF stash[i] = NoMessage THEN -1
    ELSE IF stash[i].rank = rank THEN i
    ELSE ScanStash(stash, rank, i + 1)

RemoveAt(q, i) == SubSeq(q, 1, i - 1) \o SubSeq(q, i + 1, Len(q))

\* one multi-message being rebuilt: the locals of multi_handler or
\* _recv_multi_message
Rebuild(rank, num) == [rank |-> rank, num |-> num, counter |-> 0, payload |-> <<>>]
Accept(top, multi_msg) ==
    [top EXCEPT !.payload = @ \o multi_msg.data, !.counter = @ + 1]

\* multi_handler from the top of its outer loop to the next mrnet_recv:
\* payloads found in the stash are taken, an entry without a rank raises
RECURSIVE Iterate(_, _)
Iterate(top, stash) ==
    IF top.counter = top.num THEN [status |-> "done", top |-> top, stash |-> stash]
    ELSE LET i == ScanStash(stash, top.rank, 1)
         IN IF i = -1 THEN [status |-> "AttributeError", top |-> top, stash |-> stash]
            ELSE IF i = 0 THEN [status |-> "recv", top |-> top, stash |-> stash]
            ELSE Iterate(Accept(top, stash[i]), RemoveAt(stash, i))

\* the generations the front-end may be running
ReceiverInUse == IF receiver = "unset" THEN Receivers ELSE {receiver}

Front(q) == SubSeq(q, 1, Len(q) - 1)
Last(q) == q[Len(q)]

InitMulti ==
    /\ receiver = "unset"
    /\ posted = [b \in BackEnds |-> <<>>]
    /\ stream_out = [b \in BackEnds |-> <<>>]
    /\ inbox = <<>>
    /\ rx_stack = <<>>
    /\ recv_stash = <<>>
    /\ multi_stash = <<>>
    /\ delivered = <<>>
    /\ rx_crashed = "no"

\* a back-end sends one message to the front-end
be_send(b, body) ==
    /\ Len(posted[b]) < MaxSends
    /\ \E rc \in ReceiverInUse :
          LET message == OUT_MSG(rank_of(b), body)
              frames == IF rc = "comm" THEN send(b, message)
                        ELSE mrnet_stream_send(b, message)
          IN /\ receiver' = rc
             /\ posted' = [posted EXCEPT ![b] =
                              Append(@, [message |-> message,
                                         split_input |-> SplitInput(rc, message),
                                         frames |-> frames])]
             /\ stream_out' = [stream_out EXCEPT ![b] = @ \o frames]
    /\ UNCHANGED <<inbox, rx_stack, recv_stash, multi_stash, delivered, rx_crashed>>
    /\ UNCHANGED othersMulti

\* the overlay hands the next frame of one source to the front-end
mrnet_deliver(b) ==
    /\ stream_out[b] # <<>>
    /\ inbox' = Append(inbox, Head(stream_out[b]))
    /\ stream_out' = [stream_out EXCEPT ![b] = Tail(@)]
    /\ UNCHANGED <<receiver, posted, rx_stack, recv_stash, multi_stash, delivered,
                   rx_crashed>>
    /\ UNCHANGED othersMulti

\* handle_msg(recvd) inside or outside multi_handler: a MULTI_MSG starts a
\* nested multi_handler, anything else goes to its handler
handle_msg(recvd, stack) ==
    IF recvd.msg_type = "MULTI_MSG"
    THEN LET it == Iterate(Rebuild(recvd.rank, recvd.num), multi_stash)
         IN IF it.status = "AttributeError"
            THEN /\ rx_crashed' = "AttributeError"
                 /\ UNCHANGED <<rx_stack, multi_stash, delivered>>
            ELSE /\ rx_stack' = Append(stack, it.top)
                 /\ multi_stash' = it.stash
                 /\ UNCHANGED <<delivered, rx_crashed>>
    ELSE /\ delivered' = Append(delivered, recvd)
         /\ rx_stack' = stack
         /\ UNCHANGED <<multi_stash, rx_crashed>>

\* recv (Communicator) or the receive step of remote_body (GDBFE) while no
\* multi-message is being rebuilt
recv ==
    /\ rx_crashed = "no"
    /\ rx_stack = <<>>
    /\ IF receiver = "comm"
       THEN IF recv_stash # <<>>
            THEN /\ delivered' = Append(delivered, Head(recv_stash))
                 /\ recv_stash' = Tail(recv_stash)
                 /\ UNCHANGED <<inbox, rx_stack, multi_stash, rx_crashed>>
            ELSE /\ inbox # <<>>
                 /\ inbox' = Tail(inbox)
                 /\ LET msg == _recv(Head(inbox))
                    IN IF IsException(msg)
                       THEN /\ rx_crashed' = msg.msg_type
                            /\ UNCHANGED <<rx_stack, delivered>>
                       ELSE IF msg.msg_type = "MULTI_MSG"
                       THEN /\ rx_stack' = <<Rebuild(msg.rank, msg.num)>>
                            /\ UNCHANGED <<delivered, rx_crashed>>
                       ELSE /\ delivered' = Append(delivered, msg)
                            /\ UNCHANGED <<rx_stack, rx_crashed>>
                 /\ UNCHANGED <<recv_stash, multi_stash>>
       ELSE /\ inbox # <<>>
            /\ inbox' = Tail(inbox)
            /\ LET msg == mrnet_recv(Head(inbox))
               IN IF IsException(msg)
                  THEN /\ rx_crashed' = msg.msg_type
                       /\ UNCHANGED <<rx_stack, multi_stash, delivered>>
                  ELSE handle_msg(msg, rx_stack)
            /\ UNCHANGED recv_stash
    /\ UNCHANGED <<receiver, posted, stream_out>>
    /\ UNCHANGED othersMulti

\* the end of a rebuild: cPickle.loads(payload), the result returned
\* (Communicator) or handled (GDBFE), the caller's loop resumed
Finish(top, stack, stash) ==
    LET final_msg == loads(top.payload)
    IN IF IsException(final_msg)
       THEN /\ rx_crashed' = final_msg.msg_type
            /\ UNCHANGED <<rx_stack, delivered>>
            /\ multi_stash' = stash
       ELSE /\ delivered' = Append(delivered, final_msg)
            /\ rx_stack' = stack
            /\ multi_stash' = stash
            /\ UNCHANGED rx_crashed

\* one pass of the receive loop of _recv_multi_message (Communicator) or of
\* multi_handler (GDBFE) for the innermost multi-message
recv_multi ==
    /\ rx_crashed = "no"
    /\ rx_stack # <<>>
    /\ inbox # <<>>
    /\ inbox' = Tail(inbox)
    /\ LET top == Last(rx_stack)
           below == Front(rx_stack)
       IN IF receiver = "comm"
          THEN LET recvd == _recv(Head(inbox))
               IN /\ UNCHANGED multi_stash
                  /\ IF IsException(recvd)
                     THEN /\ rx_crashed' = recvd.msg_type
                          /\ UNCHANGED <<rx_stack, recv_stash, delivered>>
                     ELSE IF recvd.msg_type = "MULTI_PAYLOAD_MSG"
                     THEN LET now == Accept(top, recvd)
                          IN /\ UNCHANGED recv_stash
                             /\ IF now.counter = now.num
                                THEN LET msg == loads(now.payload)
                                     IN IF IsException(msg)
                                        THEN /\ rx_crashed' = msg.msg_type
                                             /\ UNCHANGED <<rx_stack, delivered>>
                                        ELSE /\ delivered' = Append(delivered, msg)
                                             /\ rx_stack' = below
                                             /\ UNCHANGED rx_crashed
                                ELSE /\ rx_stack' = Append(below, now)
                                     /\ UNCHANGED <<delivered, rx_crashed>>
                     ELSE /\ recv_stash' = Append(recv_stash, recvd)
                          /\ UNCHANGED <<rx_stack, delivered, rx_crashed>>
          ELSE LET recvd == mrnet_recv(Head(inbox))
               IN /\ UNCHANGED recv_stash
                  /\ IF IsException(recvd)
                     THEN /\ rx_crashed' = recvd.msg_type
                          /\ UNCHANGED <<rx_stack, multi_stash, delivered>>
                     ELSE IF recvd.msg_type = "MULTI_PAYLOAD_MSG"
                     THEN IF recvd.rank = top.rank
                          THEN LET it == Iterate(Accept(top, recvd), multi_stash)
                               IN IF it.status = "AttributeError"
                                  THEN /\ rx_crashed' = "AttributeError"
                                       /\ UNCHANGED <<rx_stack, multi_stash, delivered>>
                                  ELSE IF it.status = "done"
                                  THEN Finish(it.top, below, it.stash)
                                  ELSE /\ rx_stack' = Append(below, it.top)
                                       /\ multi_stash' = it.stash
                                       /\ UNCHANGED <<delivered, rx_crashed>>
                          ELSE \* self.multi_stash.append(multi_msg): multi_msg is None here
                               /\ multi_stash' = Append(multi_stash, NoMessage)
                               /\ UNCHANGED <<rx_stack, delivered, rx_crashed>>
                     ELSE handle_msg(recvd, rx_stack)
    /\ UNCHANGED <<receiver, posted, stream_out>>
    /\ UNCHANGED othersMulti

NextMulti ==
    \/ \E b \in BackEnds, body \in Bodies : be_send(b, body)
    \/ \E b \in BackEnds : mrnet_deliver(b)
    \/ recv
    \/ recv_multi

(***************************************************************************)
(* The relay filter (mrnet-filters/filter_hook.py).  A relay hands the     *)
(* filter the batch of packets it has collected; the filter returns the    *)
(* packets to send on.  Packets are kept as the messages they unpickle to. *)
(* Lists of records are combined with combine_aggregation_lists, the       *)
(* combining function of gdbmiarec.py.                                     *)
(*   collect_perf - gdbconf.mrnet_collect_perf_data: senders stamp every   *)
(*                  message with _send_time ("unset" before the first)     *)
(*   arrived      - the messages that have reached the relay, in order     *)
(*   relay_in     - the batch collected and not yet filtered               *)
(*   relay_out    - the messages the relay has sent on, in order           *)
(***************************************************************************)
MaxArrivals == 3
MaxTime == 2
\* the kinds other than OUT_MSG that travel upward
OtherKinds == {"VARPRINT_RES_MSG", "LOAD_FILE"}
\* the value of a missing _send_time attribute
NoTime == 0

RelayMessage(msg_type, record, send_time) ==
    [msg_type |-> msg_type, record |-> record, _send_time |-> send_time]

\* the records a back-end may send in an OUT_MSG
RelayRecords ==
    {[names |-> <<"value">>, vals |-> <<StrA>>], [names |-> <<"value">>, vals |-> <<StrB>>]}

\* min(msg_list, key = lambda x: x._send_time)._send_time
MinSendTime(msg_list) ==
    CHOOSE t \in {msg_list[j]._send_time : j \in 1 .. Len(msg_list)} :
        \A j \in 1 .. Len(msg_list) : t <= msg_list[j]._send_time

IsOutMsg(msg) == msg.msg_type = "OUT_MSG"
IsOtherMsg(msg) == msg.msg_type # "OUT_MSG"

\* a filter that lets the other kinds through last in, first out
OtherPacketsReversed(msg_list) ==
    LET q == SelectSeq(msg_list, IsOtherMsg)
    IN [j \in 1 .. Len(q) |-> q[Len(q) + 1 - j]]

\* filter_hook: packets after the loop over msg_list
OtherPackets(msg_list) == SelectSeq(msg_list, IsOtherMsg)
\* filter_hook: record_msgs after the loop over msg_list
RecordMsgs(msg_list) == SelectSeq(msg_list, IsOutMsg)

\* filter_hook: the lists new_list can end as, folding arec_list from j on
RECURSIVE FoldRecords(_, _, _)
FoldRecords(new_list, arec_list, j) ==
    IF j > Len(arec_list) THEN {new_list}
    ELSE UNION {FoldRecords(out, arec_list, j + 1) :
                   out \in combine_aggregation_lists(new_list, arec_list[j])}

\* filter_hook: the lists of packets it may return for msg_list
filter_hook(msg_list) ==
    LET new_time == IF msg_list[1]._send_time # NoTime THEN MinSendTime(msg_list) ELSE NoTime
        record_msgs == RecordMsgs(msg_list)
        arec_list == [j \in 1 .. Len(record_msgs) |-> record_msgs[j].record]
        merged == IF record_msgs = <<>> THEN {<<>>}
                  ELSE {<<RelayMessage("OUT_MSG", new_list, NoTime)>> :
                           new_list \in FoldRecords(arec_list[1], arec_list, 2)}
        Stamp(msg) == IF new_time # NoTime THEN [msg EXCEPT !._send_time = new_time] ELSE msg
    IN {[j \in 1 .. Len(packets) |-> Stamp(packets[j])] :
           packets \in {OtherPackets(msg_list) \o m : m \in merged}}

InitRelay ==
    /\ collect_perf = "unset"
    /\ arrived = <<>>
    /\ relay_in = <<>>
    /\ relay_out = <<>>

\* the times a sender may stamp the next message with
SendTimes ==
    IF collect_perf = "unset" THEN 0 .. MaxTime
    ELSE IF collect_perf = "on" THEN 1 .. MaxTime ELSE {NoTime}

\* a message of another kind reaches the relay
relay_recv_other(kind, t) ==
    /\ Len(arrived) < MaxArrivals
    /\ t \in SendTimes
    /\ LET msg == RelayMessage(kind, <<>>, t)
       IN /\ arrived' = Append(arrived, msg)
          /\ relay_in' = Append(relay_in, msg)
    /\ collect_perf' = IF t = NoTime THEN "off" ELSE "on"
    /\ UNCHANGED relay_out
    /\ UNCHANGED othersRelay

\* an OUT_MSG of one child reaches the relay
relay_recv_out(rec, t) ==
    /\ Len(arrived) < MaxArrivals
    /\ t \in SendTimes
    /\ LET msg == RelayMessage("OUT_MSG",
                               <<GDBMIAggregatedRecord(rec, Len(arrived) % NumRanks)>>, t)
       IN /\ arrived' = Append(arrived, msg)
          /\ relay_in' = Append(relay_in, msg)
    /\ collect_perf' = IF t = NoTime THEN "off" ELSE "on"
    /\ UNCHANGED relay_out
    /\ UNCHANGED othersRelay

\* the relay runs the filter on its batch and sends the result on
relay_filter ==
    /\ relay_in # <<>>
    /\ \E packets \in filter_hook(relay_in) : relay_out' = relay_out \o packets
    /\ relay_in' = <<>>
    /\ UNCHANGED <<collect_perf, arrived>>
    /\ UNCHANGED othersRelay

NextRelay ==
    \/ \E kind \in OtherKinds, t \in 0 .. MaxTime : relay_recv_other(kind, t)
    \/ \E rec \in RelayRecords, t \in 0 .. MaxTime : relay_recv_out(rec, t)
    \/ relay_filter

(***************************************************************************)
(* Record filters of a back-end (gdbbe.py).                                *)
(*   filters      - self.filters, a list of (record type, class) pairs     *)
(*   requested    - the subtypes filtered by default or by a filter        *)
(*                  message and not unfiltered since                       *)
(*   nfilter_msgs - the number of filter and unfilter messages handled     *)
(*   last_record  - the last record read from the debugger: its subtype,   *)
(*                  whether main dropped it, and whether its subtype was   *)
(*                  in requested then                                      *)
(***************************************************************************)
MaxFilterMsgs == 3
\* varprint requests over all ranks
MaxVarprints == 3
\* commands sent to one debugger, by the front-end and by the back-end
MaxTokenCmds == 4
\* gdbconf.varprint_max_depth, gdbconf.varprint_max_children, the number of
\* children varprint_dfs calls excessive, and sys.maxsize, scaled down
varprint_max_depth == 1
varprint_max_children == 2
excessive_children == 3
maxsize == 100
\* the (record type, class) pairs of the records and messages modelled
Subtypes == {<<"notify", "thread-created">>, <<"result", "exit">>, <<"exec", "stopped">>}

\* init_filters
init_filters == <<<<"notify", "thread-created">>, <<"result", "exit">>>>

\* list.remove(x): the list without the first x; ValueError (ignored by
\* unfilter_handler) leaves it as it is
RECURSIVE ListRemove(_, _)
ListRemove(lst, x) ==
    IF lst = <<>> THEN <<>>
    ELSE IF Head(lst) = x THEN Tail(lst)
    ELSE <<Head(lst)>> \o ListRemove(Tail(lst), x)

\* is_filterable: (record_type, record_class) in self.filters
is_filterable(subtype) == \E j \in 1 .. Len(filters) : filters[j] = subtype

NoRecord == [subtype |-> <<"none", "none">>, dropped |-> FALSE, requested |-> FALSE]

InitFilter ==
    /\ filters = init_filters
    /\ requested = SeqToSet(init_filters)
    /\ nfilter_msgs = 0
    /\ last_record = NoRecord

\* filter_handler
filter_handler(subtype) ==
    /\ nfilter_msgs < MaxFilterMsgs
    /\ nfilter_msgs' = nfilter_msgs + 1
    /\ filters' = Append(filters, subtype)
    /\ requested' = requested \cup {subtype}
    /\ UNCHANGED last_record
    /\ UNCHANGED othersFilter

\* unfilter_handler
unfilter_handler(subtype) ==
    /\ nfilter_msgs < MaxFilterMsgs
    /\ nfilter_msgs' = nfilter_msgs + 1
    /\ filters' = ListRemove(filters, subtype)
    /\ requested' = requested \ {subtype}
    /\ UNCHANGED last_record
    /\ UNCHANGED othersFilter

\* GDBBE.main: a record is read and sent upward unless is_filterable
main_filter(subtype) ==
    /\ last_record' = [subtype |-> subtype, dropped |-> is_filterable(subtype),
                       requested |-> subtype \in requested]
    /\ UNCHANGED <<filters, requested, nfilter_msgs>>
    /\ UNCHANGED othersFilter

NextFilter ==
    \/ \E subtype \in Subtypes : filter_handler(subtype)
    \/ \E subtype \in Subtypes : unfilter_handler(subtype)
    \/ \E subtype \in Subtypes : main_filter(subtype)

(***************************************************************************)
(* Scalable binary distribution: src/pgdb/src/sbd.py.  One semaphore and   *)
(* one shared region per back-end host; the front-end reads requested      *)
(* files and broadcasts them.                                              *)
(***************************************************************************)
\* strings are sequences of characters, so that slices can be taken
Slash == <<"/">>
cwd == <<"/", "a">>
DotSo == <<".", "s", "o">>
DotGdb == <<".", "g", "d", "b">>
DotPy == <<".", "p", "y">>
Lib64 == <<"/", "l", "i", "b", "6", "4">>
ErrorToken == <<"e", "r", "r", "o", "r">>

LibFoo == <<"/", "a", "/", "f", ".", "s", "o">>
LibFooRelative == <<"f", ".", "s", "o">>
LibGone == <<"/", "a", "/", "g", ".", "s", "o">>
Passwd == <<"/", "e", "t", "c", "/", "p", "a", "s", "s", "w", "d">>
SystemLib == <<"/", "l", "i", "b", "6", "4", "/", "c", ".", "s", "o">>
RunPy == <<"/", "a", "/", "r", "u", "n", ".", "p", "y">>
NoPath == <<>>
\* what a debugger may write into the region as the requested path
RequestPaths ==
    {LibFoo, LibFooRelative, LibGone, Passwd, SystemLib, RunPy, NoPath}

\* the front-end's file system: os.path.isfile, open, read
FileContents ==
    [p \in {LibFoo, Passwd, SystemLib, RunPy} |->
        CASE p = LibFoo -> <<"x", "y">>
          [] p = Passwd -> <<"r">>
          [] p = SystemLib -> <<"c">>
          [] OTHER -> <<"z">>]
isfile(filename) == filename \in DOMAIN FileContents

\* the names set_executable_names may be given
ExecutableNames == {<<"p", "r", "o", "g">>, <<"r", "u", "n", ".", "p", "y">>}

\* s[0:n] == pre
StartsWith(s, pre) ==
    /\ Len(s) >= Len(pre)
    /\ SubSeq(s, 1, Len(pre)) = pre
\* s[-n:] == suf
EndsWith(s, suf) ==
    /\ Len(s) >= Len(suf)
    /\ SubSeq(s, Len(s) - Len(suf) + 1, Len(s)) = suf
\* re.compile(r".*\.so.*").match(s) is not None
MatchesDotSo(s) ==
    \E i \in 1..Len(s) : i + 2 <= Len(s) /\ SubSeq(s, i, i + 2) = DotSo
\* os.path.abspath of a path without "." segments or doubled slashes
abspath(filename) ==
    IF filename # <<>> /\ filename[1] = "/" THEN filename
    ELSE IF filename = <<>> THEN cwd
    ELSE cwd \o Slash \o filename
LastSlash(s) ==
    IF \E i \in 1..Len(s) : s[i] = "/"
    THEN CHOOSE i \in 1..Len(s) :
            s[i] = "/" /\ \A j \in (i + 1)..Len(s) : s[j] # "/"
    ELSE 0
basename(s) == SubSeq(s, LastSlash(s) + 1, Len(s))

\* the files a back-end may come to hold an entry for
Files == {abspath(p) : p \in RequestPaths}
\* load_files has no entry for the file / has the entry None
Absent == <<"absent">>
Pending == <<"None">>
\* nothing written by the back-end since the debugger last read
NoReply == <<"no reply">>

\* SBDBE.load_file_check with its two refusals left out
load_file_check_without_refusals(bins, path) ==
    LET filename == abspath(path)
        base == basename(filename)
    IN  IF base \in bins THEN TRUE
        ELSE MatchesDotSo(base)

\* SBDBE.load_file_check
load_file_check(bins, path) ==
    LET filename == abspath(path)
        base == basename(filename)
    IN  IF base \in bins THEN TRUE
        ELSE IF EndsWith(base, DotGdb) \/ EndsWith(base, DotPy) THEN FALSE
        ELSE IF StartsWith(filename, Lib64) THEN FALSE
        ELSE MatchesDotSo(base)

\* GDBMessage(FILE_DATA, filename, data, error)
FileData(filename, data, error) ==
    [filename |-> filename, data |-> data, error |-> error]
\* GDBMessage(LOAD_FILE, filename, rank) as the front-end sees it arrive
LoadFile(b, filename) == [src |-> b, filename |-> filename]

\* sbd.py names LOAD_FILE at line 125 but imports only GDBMessage and
\* FILE_DATA (line 9): the name resolves only if something else puts it in
\* the module's globals, otherwise load_file raises NameError
NameLookups == {"NameError", "bound"}

InitSBD ==
    /\ load_file_lookup = "unset"
    /\ gdb_semaphore = [b \in BackEnds |-> 1]
    /\ gdb_flag = [b \in BackEnds |-> FALSE]
    /\ gdb_request = [b \in BackEnds |-> NoPath]
    /\ gdb_waiting = [b \in BackEnds |-> FALSE]
    /\ gdb_mem = [b \in BackEnds |-> NoReply]
    /\ load_file_bins = [b \in BackEnds |-> {}]
    /\ load_files = [b \in BackEnds |-> [f \in Files |-> Absent]]
    /\ current_load_file = [b \in BackEnds |-> NoPath]
    /\ sbd_decision = [b \in BackEnds |-> "none"]
    /\ loaded_files = {}
    /\ file_reads = [f \in Files |-> 0]
    /\ fe_load_requests = <<>>
    /\ be_file_data = [b \in BackEnds |-> <<>>]

\* the debugger publishes a path: acquire, set the flag, write, release
gdb_publish(b, p) ==
    /\ gdb_semaphore[b] > 0
    /\ ~gdb_waiting[b]
    /\ gdb_flag' = [gdb_flag EXCEPT ![b] = TRUE]
    /\ gdb_request' = [gdb_request EXCEPT ![b] = p]
    /\ gdb_waiting' = [gdb_waiting EXCEPT ![b] = TRUE]
    /\ gdb_mem' = [gdb_mem EXCEPT ![b] = NoReply]
    /\ sbd_decision' = [sbd_decision EXCEPT ![b] = "none"]
    /\ UNCHANGED <<load_file_lookup, gdb_semaphore, load_file_bins,
                   load_files, current_load_file, loaded_files, file_reads,
                   fe_load_requests, be_file_data>>
    /\ UNCHANGED othersSBD

\* the debugger takes the reply out of the region
gdb_collect(b) ==
    /\ gdb_semaphore[b] > 0
    /\ gdb_waiting[b]
    /\ gdb_mem[b] # NoReply
    /\ gdb_waiting' = [gdb_waiting EXCEPT ![b] = FALSE]
    /\ UNCHANGED <<load_file_lookup, gdb_semaphore, gdb_flag, gdb_request,
                   gdb_mem, load_file_bins, load_files, current_load_file,
                   sbd_decision, loaded_files, file_reads, fe_load_requests,
                   be_file_data>>
    /\ UNCHANGED othersSBD

set_executable_names(b) ==
    /\ load_file_bins[b] = {}
    /\ load_file_bins' = [load_file_bins EXCEPT ![b] = ExecutableNames]
    /\ UNCHANGED <<load_file_lookup, gdb_semaphore, gdb_flag, gdb_request,
                   gdb_waiting, gdb_mem, load_files, current_load_file,
                   sbd_decision, loaded_files, file_reads, fe_load_requests,
                   be_file_data>>
    /\ UNCHANGED othersSBD

\* the entry file_data_respond writes, NoReply when it writes nothing
file_data_respond(cache, filename) ==
    IF cache[filename] \in {Absent, Pending} THEN NoReply ELSE cache[filename]

LookupInUse(l) ==
    /\ load_file_lookup \in {"unset", l}
    /\ load_file_lookup' = l

\* SBDBE.sbd_check, with SBDBE.load_file
sbd_check(b) ==
    /\ \/ \* BusyError
          /\ gdb_semaphore[b] = 0
          /\ UNCHANGED sbdVars
       \/ \* nothing published: release
          /\ gdb_semaphore[b] > 0
          /\ ~gdb_flag[b]
          /\ UNCHANGED sbdVars
       \/ /\ gdb_semaphore[b] > 0
          /\ gdb_flag[b]
          /\ gdb_flag' = [gdb_flag EXCEPT ![b] = FALSE]
          /\ LET path == gdb_request[b]
                 filename == abspath(path)
             IN  IF path # NoPath
                    /\ load_file_check(load_file_bins[b], path)
                 THEN IF load_files[b][filename] # Absent
                      THEN \* cached: respond and release
                           /\ LET reply ==
                                    file_data_respond(load_files[b], filename)
                              IN  gdb_mem' =
                                    [gdb_mem EXCEPT ![b] =
                                       IF reply = NoReply THEN @ ELSE reply]
                           /\ sbd_decision' =
                                [sbd_decision EXCEPT ![b] = "cached"]
                           /\ UNCHANGED <<load_file_lookup, gdb_semaphore,
                                          load_files, current_load_file,
                                          fe_load_requests>>
                      ELSE \* ask the front-end and keep the semaphore
                           /\ load_files' =
                                [load_files EXCEPT ![b][filename] = Pending]
                           /\ current_load_file' =
                                [current_load_file EXCEPT ![b] = filename]
                           /\ gdb_semaphore' =
                                [gdb_semaphore EXCEPT ![b] = @ - 1]
                           /\ sbd_decision' =
                                [sbd_decision EXCEPT ![b] = "forwarded"]
                           /\ \/ /\ LookupInUse("NameError")
                                 /\ UNCHANGED fe_load_requests
                              \/ /\ LookupInUse("bound")
                                 /\ fe_load_requests' =
                                      Append(fe_load_requests,
                                             LoadFile(b, filename))
                           /\ UNCHANGED gdb_mem
                 ELSE \* refused
                      /\ gdb_mem' = [gdb_mem EXCEPT ![b] = ErrorToken]
                      /\ sbd_decision' = [sbd_decision EXCEPT ![b] = "refused"]
                      /\ UNCHANGED <<load_file_lookup, gdb_semaphore,
                                     load_files, current_load_file,
                                     fe_load_requests>>
          /\ UNCHANGED <<gdb_request, gdb_waiting, load_file_bins,
                         loaded_files, file_reads, be_file_data>>
    /\ UNCHANGED othersSBD

broadcast_file_data(msg) ==
    be_file_data' = [b \in BackEnds |-> Append(be_file_data[b], msg)]

\* SBDFE.load_file, called by the front-end's LOAD_FILE handler
SBDFE_load_file ==
    /\ fe_load_requests # <<>>
    /\ fe_load_requests' = Tail(fe_load_requests)
    /\ LET filename == Head(fe_load_requests).filename
       IN  IF filename \in loaded_files
           THEN UNCHANGED <<loaded_files, file_reads, be_file_data>>
           ELSE IF ~isfile(filename)
           THEN /\ broadcast_file_data(FileData(filename, Pending, TRUE))
                /\ UNCHANGED <<loaded_files, file_reads>>
           ELSE /\ file_reads' = [file_reads EXCEPT ![filename] = @ + 1]
                /\ loaded_files' = loaded_files \cup {filename}
                /\ broadcast_file_data(
                       FileData(filename, FileContents[filename], FALSE))
    /\ UNCHANGED <<load_file_lookup, gdb_semaphore, gdb_flag, gdb_request,
                   gdb_waiting, gdb_mem, load_file_bins, load_files,
                   current_load_file, sbd_decision>>
    /\ UNCHANGED othersSBD

\* SBDBE.file_data_handler
file_data_handler(b) ==
    /\ be_file_data[b] # <<>>
    /\ be_file_data' = [be_file_data EXCEPT ![b] = Tail(@)]
    /\ LET msg == Head(be_file_data[b])
           filename == msg.filename
           cache == [load_files[b] EXCEPT ![filename] =
                        IF msg.error THEN ErrorToken ELSE msg.data]
       IN  /\ load_files' = [load_files EXCEPT ![b] = cache]
           /\ IF current_load_file[b] # filename
              THEN UNCHANGED <<gdb_mem, current_load_file, gdb_semaphore>>
              ELSE /\ gdb_mem' =
                        [gdb_mem EXCEPT ![b] =
                            file_data_respond(cache, filename)]
                   /\ current_load_file' =
                        [current_load_file EXCEPT ![b] = NoPath]
                   /\ gdb_semaphore' = [gdb_semaphore EXCEPT ![b] = @ + 1]
    /\ UNCHANGED <<load_file_lookup, gdb_flag, gdb_request, gdb_waiting,
                   load_file_bins, sbd_decision, loaded_files, file_reads,
                   fe_load_requests>>
    /\ UNCHANGED othersSBD

NextSBD ==
    \/ \E b \in BackEnds : \E p \in RequestPaths : gdb_publish(b, p)
    \/ \E b \in BackEnds : gdb_collect(b)
    \/ \E b \in BackEnds : set_executable_names(b)
    \/ \E b \in BackEnds : sbd_check(b)
    \/ SBDFE_load_file
    \/ \E b \in BackEnds : file_data_handler(b)

(***************************************************************************)
(* Variable printing on the back-end: src/src/varprint.py (the same code   *)
(* is in src/pgdb/src/gdbbe.py), with the variable-object table of         *)
(* src/mi/varobj.py.  Names are sequences of their dot-separated parts.    *)
(***************************************************************************)
VarV == <<"v">>
VarVA == <<"v", "a">>
VarVB == <<"v", "b">>
VarVC == <<"v", "c">>
VarVAX == <<"v", "a", "x">>
VarVAXY == <<"v", "a", "x", "y">>
VarVAXYZ == <<"v", "a", "x", "y", "z">>
VarU == <<"u">>
VarUA == <<"u", "a">>
VarUB == <<"u", "b">>
VarUC == <<"u", "c">>
VarUD == <<"u", "d">>
VarUAX == <<"u", "a", "x">>
VarW == <<"w">>
\* the variables of the debugged program: v has three children, below the
\* first of which there is a chain v.a.x.y.z; u has four children, more
\* than varprint_dfs lists the children of; there is no variable w
TreeNames == {VarV, VarVA, VarVB, VarVC, VarVAX, VarVAXY, VarVAXYZ,
              VarU, VarUA, VarUB, VarUC, VarUD, VarUAX}
gdb_children(n) ==
    CASE n = VarV -> <<VarVA, VarVB, VarVC>>
      [] n = VarVA -> <<VarVAX>>
      [] n = VarVAX -> <<VarVAXY>>
      [] n = VarVAXY -> <<VarVAXYZ>>
      [] n = VarU -> <<VarUA, VarUB, VarUC, VarUD>>
      [] n = VarUA -> <<VarUAX>>
      [] OTHER -> <<>>
num_child(n) == Len(gdb_children(n))
\* pointers of value 0 among them
NullPointers == {}
\* the names a varprint message may carry
VarprintNames == {VarV, VarW, VarVA, VarVC, VarU}
\* the ranks the back-end hosts
VarprintRanks == 0 .. (NumBE - 1)
pseudochildren == {"public", "protected", "private"}

UpdateReplies == {"good", "no changelist", "out of scope"}
ListReplies == {"good", "no has_more", "child without name"}

\* VariableObject.__init__, and the slot of a name the table does not hold
FreshVarobj == [present |-> TRUE, listed |-> FALSE, more_children |-> FALSE]
NoVarobj == [present |-> FALSE, listed |-> FALSE, more_children |-> FALSE]

IsBelow(n, anc) ==
    /\ Len(n) > Len(anc)
    /\ SubSeq(n, 1, Len(anc)) = anc
get_parent(n) == SubSeq(n, 1, Len(n) - 1)
\* VariableObjectManager.get_var_obj: is there an object of that name
get_var_obj(table, name) ==
    /\ name \in TreeNames
    /\ \A k \in 1..Len(name) : table[SubSeq(name, 1, k)].present
\* VariableObjectManager.add_var_obj of a newly created object: it takes
\* the place of any object of that name, and has no children
can_add_var_obj(table, name) ==
    Len(name) = 1 \/ get_var_obj(table, get_parent(name))
add_var_obj(table, name) ==
    [n \in TreeNames |->
        IF n = name THEN FreshVarobj
        ELSE IF IsBelow(n, name) THEN NoVarobj
        ELSE table[n]]
\* VariableObjectManager.del_var_obj
del_var_obj(table, name) ==
    [n \in TreeNames |->
        IF n = name \/ IsBelow(n, name) THEN NoVarobj ELSE table[n]]
\* VariableObjectManager.get_lowest_ancestor, <<>> for None
get_lowest_ancestor(table, name) ==
    IF ~(SubSeq(name, 1, 1) \in TreeNames /\ table[SubSeq(name, 1, 1)].present)
    THEN <<>>
    ELSE LET held == {k \in 1..Len(name) :
                        get_var_obj(table, SubSeq(name, 1, k))}
         IN  SubSeq(name, 1, CHOOSE k \in held : \A j \in held : j <= k)
get_name_depth(name) == Len(name)
NotPseudoPart(part) == part \notin pseudochildren
NotPseudo(name) == SelectSeq(name, NotPseudoPart)
same_branch(name1, name2) ==
    LET n1 == NotPseudo(name1)
        n2 == NotPseudo(name2)
    IN  \A k \in 1..Len(n1) : k <= Len(n2) => n1[k] = n2[k]
is_pseudochild(name) == name[Len(name)] \in pseudochildren

\* the state of one varprint request of one rank
VarprintRequest(rank, name) ==
    [rank |-> rank, name |-> name, stage |-> "update", stack |-> <<>>,
     max_depth |-> varprint_max_depth,
     max_children |-> varprint_max_children,
     reset_maxes |-> FALSE, branch_depth |-> 0,
     lists |-> 0, results |-> <<>>, bad_at |-> 0, found_complete |-> FALSE,
     pushes |-> {}]

InitVarprint ==
    /\ varobjs = [r \in VarprintRanks |-> [n \in TreeNames |-> NoVarobj]]
    /\ varprints = <<>>

Busy(r) ==
    \E q \in 1..Len(varprints) :
        varprints[q].rank = r /\ varprints[q].stage # "ended"

RECURSIVE UpdateAll(_, _, _)
UpdateAll(reqs, name, targets) ==
    IF targets = {} THEN reqs
    ELSE LET r == CHOOSE x \in targets : \A y \in targets : x <= y
         IN  UpdateAll(Append(reqs, VarprintRequest(r, name)), name,
                       targets \ {r})

\* VariablePrinter.varprint_handler: var-update is sent to every targeted
\* rank of this back-end
varprint_handler(name, targets) ==
    /\ targets # {}
    /\ Len(varprints) + Cardinality(targets) <= MaxVarprints
    /\ \A r \in targets : ~Busy(r)
    /\ varprints' = UpdateAll(varprints, name, targets)
    /\ UNCHANGED varobjs
    /\ UNCHANGED othersVarprint

\* VariablePrinter.varprint_start_no_create
varprint_start_no_create(req, varobj, max_children, reset_maxes) ==
    [req EXCEPT !.stage = "list",
                !.stack = <<<<varobj, 0>>>>,
                !.max_depth = get_name_depth(req.name),
                !.branch_depth = get_name_depth(req.name),
                !.max_children = max_children,
                !.reset_maxes = reset_maxes,
                !.lists = @ + 1]

\* every child the debugger has for the name is in the table
CompletelyListed(table, name) ==
    /\ table[name].listed
    /\ \A k \in 1..num_child(name) : table[gdb_children(name)[k]].present

\* varprint_handler2 listing an existing variable without lifting the cap
varprint_handler2_cap_kept(req, table) ==
    IF get_var_obj(table, req.name)
    THEN IF ~table[req.name].listed \/ table[req.name].more_children
         THEN varprint_start_no_create(req, req.name, varprint_max_children,
                                       TRUE)
         ELSE [req EXCEPT !.stage = "ended", !.results = Append(@, "varobj")]
    ELSE IF get_lowest_ancestor(table, req.name) # <<>>
    THEN varprint_start_no_create(req, get_lowest_ancestor(table, req.name),
                                  varprint_max_children, FALSE)
    ELSE [req EXCEPT !.stage = "create",
                     !.branch_depth =
                         varprint_max_depth + get_name_depth(req.name)]

\* VariablePrinter.varprint_handler2
varprint_handler2(req, table) ==
    IF get_var_obj(table, req.name)
    THEN IF ~table[req.name].listed \/ table[req.name].more_children
         THEN [varprint_start_no_create(req, req.name, maxsize, TRUE)
                 EXCEPT !.found_complete = CompletelyListed(table, req.name)]
         ELSE [req EXCEPT !.stage = "ended",
                          !.results = Append(@, "varobj"),
                          !.found_complete =
                              CompletelyListed(table, req.name)]
    ELSE IF get_lowest_ancestor(table, req.name) # <<>>
    THEN varprint_start_no_create(req, get_lowest_ancestor(table, req.name),
                                  varprint_max_children, FALSE)
    ELSE \* varprint_start: var-create is sent
         [req EXCEPT !.stage = "create",
                     !.branch_depth =
                         varprint_max_depth + get_name_depth(req.name)]

\* _update_handler of VariablePrinter.varprint_update
varprint_update(q, reply) ==
    /\ q \in 1..Len(varprints)
    /\ varprints[q].stage = "update"
    /\ LET req == varprints[q]
           table == varobjs[req.rank]
       IN  CASE reply = "no changelist" ->
                  /\ varprints' = [varprints EXCEPT ![q].stage = "ended"]
                  /\ UNCHANGED varobjs
             [] reply = "out of scope" /\ get_var_obj(table, VarV) ->
                  /\ varobjs' = [varobjs EXCEPT ![req.rank] =
                                    del_var_obj(table, VarV)]
                  /\ varprints' = [varprints EXCEPT ![q].stage = "ended"]
             [] OTHER ->
                  /\ varprints' =
                       [varprints EXCEPT ![q] = varprint_handler2(req, table)]
                  /\ UNCHANGED varobjs
    /\ UNCHANGED othersVarprint

\* _create_handler of VariablePrinter.varprint_start
varprint_start(q) ==
    /\ q \in 1..Len(varprints)
    /\ varprints[q].stage = "create"
    /\ LET req == varprints[q]
           base_name == SubSeq(req.name, 1, 1)
       IN  IF base_name \notin TreeNames
           THEN \* the record has no name: bad variable name
                /\ varprints' = [varprints EXCEPT ![q].stage = "ended"]
                /\ UNCHANGED varobjs
           ELSE /\ varobjs' = [varobjs EXCEPT ![req.rank] =
                                  add_var_obj(@, base_name)]
                /\ IF num_child(base_name) > 0
                   THEN varprints' =
                          [varprints EXCEPT
                              ![q].stage = "list",
                              ![q].stack = <<<<base_name, 0>>>>,
                              ![q].lists = @ + 1]
                   ELSE varprints' =
                          [varprints EXCEPT
                              ![q].stage = "ended",
                              ![q].results = Append(@, "varobj")]
    /\ UNCHANGED othersVarprint

\* whether varprint_dfs pushes the child of a parent at parent_depth
do_listing(req, child, parent_depth, nchildren) ==
    /\ \/ parent_depth <= req.max_depth
       \/ IF same_branch(child, req.name)
          THEN ~(parent_depth > req.branch_depth /\ ~is_pseudochild(child))
          ELSE is_pseudochild(child)
    /\ child \notin NullPointers
    /\ nchildren <= excessive_children

RECURSIVE AddChildren(_, _, _)
AddChildren(table, kids, k) ==
    IF k > Len(kids) THEN table
    ELSE AddChildren(add_var_obj(table, kids[k]), kids, k + 1)
RECURSIVE PushChildren(_, _, _, _, _)
PushChildren(stack, req, kids, parent_depth, k) ==
    IF k > Len(kids) THEN stack
    ELSE PushChildren(
            IF /\ num_child(kids[k]) > 0
               /\ do_listing(req, kids[k], parent_depth,
                             num_child(get_parent(kids[k])))
            THEN Append(stack, <<kids[k], parent_depth + 1>>)
            ELSE stack,
            req, kids, parent_depth, k + 1)

\* what varprint_dfs does once the reply has been looked at: answer when
\* the stack is empty, otherwise list the variable on top of it
varprint_dfs_answer_or_list(req, table, stack, results) ==
    IF stack = <<>>
    THEN [req EXCEPT !.stage = "ended",
                     !.stack = stack,
                     !.results =
                        Append(results,
                               IF get_var_obj(table, req.name)
                               THEN "varobj" ELSE "does not exist")]
    ELSE [req EXCEPT !.stack = stack,
                     !.results = results,
                     !.lists = @ + 1,
                     !.max_depth =
                        IF req.reset_maxes THEN varprint_max_depth ELSE @,
                     !.max_children =
                        IF req.reset_maxes THEN varprint_max_children ELSE @,
                     !.reset_maxes = FALSE]

\* VariablePrinter.varprint_dfs
varprint_dfs(q, reply) ==
    /\ q \in 1..Len(varprints)
    /\ varprints[q].stage = "list"
    /\ LET req0 == varprints[q]
           req == [req0 EXCEPT !.bad_at =
                      IF reply = "good" THEN @ ELSE req0.lists]
           cur_varobj == req.stack[Len(req.stack)][1]
           parent_depth == req.stack[Len(req.stack)][2]
           popped == SubSeq(req.stack, 1, Len(req.stack) - 1)
           table == [varobjs[req.rank] EXCEPT ![cur_varobj].listed = TRUE]
           kids == gdb_children(cur_varobj)
           capped == [table EXCEPT ![cur_varobj].more_children =
                         IF Len(kids) > req.max_children THEN TRUE ELSE @]
           shown == SubSeq(kids, 1,
                           IF Len(kids) > req.max_children
                           THEN req.max_children ELSE Len(kids))
       IN  CASE reply = "no has_more" ->
                  /\ varobjs' = [varobjs EXCEPT ![req.rank] = table]
                  /\ varprints' =
                       [varprints EXCEPT ![q] =
                           varprint_dfs_answer_or_list(
                               req, table, popped,
                               Append(req.results, "bad data"))]
             [] reply = "child without name" ->
                  \* create_var_obj fails on the first child: return
                  /\ varobjs' = [varobjs EXCEPT ![req.rank] = capped]
                  /\ varprints' =
                       [varprints EXCEPT ![q] =
                           [req EXCEPT !.stage = "ended", !.stack = popped]]
             [] OTHER ->
                  LET added == AddChildren(capped, shown, 1)
                      pushed == PushChildren(popped, req, shown,
                                             parent_depth, 1)
                      logged ==
                          [req EXCEPT !.pushes = @ \cup
                              {<<pushed[i][1], parent_depth>> :
                                  i \in (Len(popped) + 1)..Len(pushed)}]
                  IN  /\ varobjs' = [varobjs EXCEPT ![req.rank] = added]
                      /\ varprints' =
                           [varprints EXCEPT ![q] =
                               varprint_dfs_answer_or_list(
                                   logged, added, pushed, req.results)]
    /\ UNCHANGED othersVarprint

NextVarprint ==
    \/ \E name \in VarprintNames : \E targets \in SUBSET VarprintRanks :
          varprint_handler(name, targets)
    \/ \E q \in 1..MaxVarprints : \E reply \in UpdateReplies :
          varprint_update(q, reply)
    \/ \E q \in 1..MaxVarprints : varprint_start(q)
    \/ \E q \in 1..MaxVarprints : \E reply \in ListReplies :
          varprint_dfs(q, reply)

(***************************************************************************)
(* Tokens of debugger commands: GDBFE.queue_msg_with_token                 *)
(* (src/pgdb/src/gdbfe.py), GDBBE.cmd_handler and gdb_run_cmd              *)
(* (src/pgdb/src/gdbbe.py), GDBMachineInterface.send and _handle           *)
(* (src/mi/gdbmi.py).  One debugger of one back-end.                       *)
(***************************************************************************)
\* the tokens a command can get
TokenRange == 0..MaxTokenCmds
\* handlers[token] was never assigned / self.handlers[token] = None
Unassigned == <<"unassigned">>
NoHandler == <<"None">>
DefaultHandler == <<"default">>
\* token = None
NoToken == -1
\* the continuation a local caller passes with command number c
Continuation(c) == <<"handler", c>>

InitToken ==
    /\ current_token = 0
    /\ fe_cmd_msgs = <<>>
    /\ mi_token = 0
    /\ mi_handlers = [t \in TokenRange |-> Unassigned]
    /\ gdb_outstanding = <<>>
    /\ dispatched = {}
    /\ ncommands = 0

\* GDBFE.queue_msg_with_token
queue_msg_with_token ==
    /\ ncommands < MaxTokenCmds
    /\ ncommands' = ncommands + 1
    /\ fe_cmd_msgs' = Append(fe_cmd_msgs, current_token)
    /\ current_token' = current_token + 1
    /\ UNCHANGED <<mi_token, mi_handlers, gdb_outstanding, dispatched>>
    /\ UNCHANGED othersToken

\* GDBMachineInterface.send takes `not token` for "no token given"
TokenUsed(token) == token # NoToken /\ token # 0

\* GDBMachineInterface.send: the token written before the command, the
\* handler stored under it, and the command counted as outstanding
GDBMachineInterface_send(c, handler, token) ==
    LET used == IF TokenUsed(token) THEN token ELSE mi_token
    IN  /\ mi_token' = IF TokenUsed(token) THEN mi_token ELSE mi_token + 1
        /\ mi_handlers' = [mi_handlers EXCEPT ![used] = handler]
        /\ gdb_outstanding' =
             Append(gdb_outstanding,
                    [cmd |-> c, token |-> used, handler |-> handler])

\* GDBBE.cmd_handler: a command of the front-end is run with its token
\* and no handler
cmd_handler_with_token ==
    /\ fe_cmd_msgs # <<>>
    /\ fe_cmd_msgs' = Tail(fe_cmd_msgs)
    /\ GDBMachineInterface_send(<<"fe", Head(fe_cmd_msgs)>>, NoHandler,
                                Head(fe_cmd_msgs))
    /\ UNCHANGED <<current_token, dispatched, ncommands>>
    /\ UNCHANGED othersToken

\* GDBBE.gdb_run_cmd by the back-end itself: a handler and no token
gdb_run_cmd_local ==
    /\ ncommands < MaxTokenCmds
    /\ ncommands' = ncommands + 1
    /\ GDBMachineInterface_send(<<"be", ncommands>>,
                                Continuation(ncommands), NoToken)
    /\ UNCHANGED <<current_token, fe_cmd_msgs, dispatched>>
    /\ UNCHANGED othersToken

\* GDBMachineInterface._handle of the result record of the oldest
\* outstanding command
_handle ==
    /\ gdb_outstanding # <<>>
    /\ gdb_outstanding' = Tail(gdb_outstanding)
    /\ LET done == Head(gdb_outstanding)
           stored == mi_handlers[done.token]
       IN  dispatched' = dispatched \cup
             {[cmd |-> done.cmd,
               registered |-> IF done.handler = NoHandler
                              THEN DefaultHandler ELSE done.handler,
               invoked |-> IF stored = NoHandler
                           THEN DefaultHandler ELSE stored]}
    /\ UNCHANGED <<current_token, fe_cmd_msgs, mi_token, mi_handlers,
                   ncommands>>
    /\ UNCHANGED othersToken

NextToken ==
    \/ queue_msg_with_token
    \/ cmd_handler_with_token
    \/ gdb_run_cmd_local
    \/ _handle

(***************************************************************************)
(* The record handler registry: src/pgdb/src/mi/gdbmi_recordhandler.py.    *)
(***************************************************************************)
MaxHandlers == 3
HandlerTokens == {0, 1}
\* the type sets handlers are registered for, and the records handled:
\* a token (NoToken for none) and the record's type with its subtypes
HandlerTypes == {{"result"}, {"result", "done"}}
HandledRecords ==
    [token : HandlerTokens \cup {NoToken},
     types : {{"result", "done"}, {"notify", "thread-created"}}]

InitHandler ==
    /\ token_handlers = [t \in HandlerTokens |-> <<>>]
    /\ type_handlers = [k \in HandlerTypes |-> <<>>]
    /\ handler_id = 0
    /\ registrations = <<>>
    /\ removed_hids = {}
    /\ last_handled = [record |-> [token |-> NoToken, types |-> {}],
                       invoked |-> <<>>, raised |-> "nothing handled",
                       removed |-> {}, registered |-> 0]

\* GDBMIRecordHandler.add_token_handler
add_token_handler(token) ==
    /\ handler_id < MaxHandlers
    /\ handler_id' = handler_id + 1
    /\ token_handlers' = [token_handlers EXCEPT ![token] = Append(@, <<handler_id>>)]
    /\ registrations' = Append(registrations, [token |-> token, types |-> {}])
    /\ UNCHANGED <<type_handlers, removed_hids, last_handled>>
    /\ UNCHANGED othersHandler

\* GDBMIRecordHandler.add_type_handler
add_type_handler(types) ==
    /\ handler_id < MaxHandlers
    /\ handler_id' = handler_id + 1
    /\ type_handlers' = [type_handlers EXCEPT ![types] = Append(@, <<handler_id>>)]
    /\ registrations' = Append(registrations, [token |-> NoToken, types |-> types])
    /\ UNCHANGED <<token_handlers, removed_hids, last_handled>>
    /\ UNCHANGED othersHandler

\* Python's == between a tuple and an integer is False
TupleEqualsInt(tup, hid) == FALSE
\* the keys the search loop of remove_handler stops at: it compares
\* handlers[k][0], the first (hid, func, data) tuple of the key's list,
\* with hid
MatchingKeys(handlers, hid) ==
    {k \in DOMAIN handlers :
        handlers[k] # <<>> /\ TupleEqualsInt(Head(handlers[k]), hid)}
\* del handlers[key] for the key the loop found, nothing when none
DeleteMatch(handlers, hid) ==
    IF MatchingKeys(handlers, hid) = {} THEN {handlers}
    ELSE {[handlers EXCEPT ![k] = <<>>] : k \in MatchingKeys(handlers, hid)}

\* GDBMIRecordHandler.remove_handler
remove_handler(hid) ==
    /\ hid < handler_id
    /\ hid \notin removed_hids
    /\ removed_hids' = removed_hids \cup {hid}
    /\ token_handlers' \in DeleteMatch(token_handlers, hid)
    /\ type_handlers' \in DeleteMatch(type_handlers, hid)
    /\ UNCHANGED <<handler_id, registrations, last_handled>>
    /\ UNCHANGED othersHandler

\* the handlers of the type sets within the record's types, key by key
TypeSetsOf(record) == {k \in HandlerTypes : k \subseteq record.types}
RECURSIVE InvokeTypes(_)
InvokeTypes(keys) ==
    IF keys = {} THEN {<<>>}
    ELSE UNION {{type_handlers[k] \o rest : rest \in InvokeTypes(keys \ {k})} :
                   k \in keys}

\* GDBMIRecordHandler.handle: with a token handler registered for the
\* record's token, tup is the list of (hid, func, data) tuples; tup[2]
\* raises IndexError on a list of fewer than three, and tup[1] is a tuple,
\* which cannot be called
handle(record) ==
    /\ \/ /\ record.token # NoToken
          /\ token_handlers[record.token] # <<>>
          /\ last_handled' =
               [record |-> record, invoked |-> <<>>,
                removed |-> removed_hids,
                registered |-> Len(registrations),
                raised |-> IF Len(token_handlers[record.token]) < 3
                           THEN "IndexError" ELSE "TypeError"]
       \/ /\ IF record.token = NoToken THEN TRUE
             ELSE token_handlers[record.token] = <<>>
          /\ \E order \in InvokeTypes(TypeSetsOf(record)) :
                last_handled' =
                  [record |-> record, invoked |-> order, raised |-> "none",
                   removed |-> removed_hids,
                   registered |-> Len(registrations)]
    /\ UNCHANGED <<token_handlers, type_handlers, handler_id, registrations,
                   removed_hids>>
    /\ UNCHANGED othersHandler

NextHandler ==
    \/ \E token \in HandlerTokens : add_token_handler(token)
    \/ \E types \in HandlerTypes : add_type_handler(types)
    \/ \E hid \in 0..(MaxHandlers - 1) : remove_handler(hid)
    \/ \E record \in HandledRecords : handle(record)

(***************************************************************************)
(* interval.py: construction from an unsorted list, intersect, difference  *)
(* and comparison.  An Interval is the sequence of its (low, high) tuples. *)
(***************************************************************************)
MaxInt == 3
MaxLis == 3
RECURSIVE ListsUpTo(_)
ListsUpTo(n) ==
    IF n = 0 THEN {<<>>}
    ELSE ListsUpTo(n - 1) \cup
         {Append(l, x) : l \in {m \in ListsUpTo(n - 1) : Len(m) = n - 1},
                         x \in 0 .. MaxInt}
\* the lists given to Interval(lis = ...): any order, duplicates allowed
IntervalLists == ListsUpTo(MaxLis)

\* lis.sort()
RECURSIVE InsertSorted(_, _)
InsertSorted(sorted, x) ==
    IF sorted = <<>> THEN <<x>>
    ELSE IF x < Head(sorted) THEN <<x>> \o sorted
    ELSE <<Head(sorted)>> \o InsertSorted(Tail(sorted), x)
RECURSIVE sort(_)
sort(lis) ==
    IF lis = <<>> THEN <<>>
    ELSE InsertSorted(sort(SubSeq(lis, 1, Len(lis) - 1)), lis[Len(lis)])

\* Interval(lis = ...), is_sorted left False
Interval(lis) == IntervalOfSortedLis(sort(lis))

\* the operands of the binary operations: the Intervals of the sets of
\* integers up to MaxInt, and the two of the worked example
ExampleA == <<1, 2, 3, 5, 6, 9>>
ExampleB == <<2, 6, 9>>
Operands ==
    {Interval(l) : l \in {m \in IntervalLists : sort(m) = m /\
                            \A i \in 1 .. (Len(m) - 1) : m[i] < m[i + 1]}}
    \cup {Interval(ExampleA), Interval(ExampleB)}

\* the while loop of intersect() for one interval of self: (k, intersection)
RECURSIVE IntersectWhile(_, _, _, _)
IntersectWhile(interval, o, k, intersection) ==
    IF ~(k < Len(o)) THEN <<k, intersection>>
    ELSE IF _interval_intersect(interval, o[k + 1])
         THEN LET found == Append(intersection,
                                  <<Max2(interval[1], o[k + 1][1]),
                                    Min2(interval[2], o[k + 1][2])>>)
              IN  IF o[k + 1][2] <= interval[2]
                  THEN IntersectWhile(interval, o, k + 1, found)
                  ELSE <<k, found>>
         ELSE IF o[k + 1][2] < interval[1]
              THEN IntersectWhile(interval, o, k + 1, intersection)
              ELSE <<k, intersection>>
\* for interval in self.intervals
RECURSIVE IntersectFor(_, _, _, _)
IntersectFor(rest, o, k, intersection) ==
    IF rest = <<>> THEN intersection
    ELSE LET w == IntersectWhile(Head(rest), o, k, intersection)
         IN  IntersectFor(Tail(rest), o, w[1], w[2])
\* intersect()
intersect(s, o) ==
    IF IntervalLen(o) = 0 THEN <<>>
    ELSE IntervalOfIntervals(IntersectFor(s, o, 0, <<>>))

\* _interval_difference; the empty sequence stands for None
_interval_difference(intv1, intv2) ==
    IF intv1[1] <= intv2[2] /\ intv2[1] <= intv1[2]
    THEN IF intv1[1] < intv2[1]
         THEN IF intv1[2] <= intv2[2]
              THEN <<<<intv1[1], intv2[1] - 1>>>>
              ELSE <<<<intv1[1], intv2[1] - 1>>, <<intv2[2] + 1, intv1[2]>>>>
         ELSE IF intv2[1] < intv1[1]
              THEN IF intv1[2] <= intv2[2]
                   THEN <<>>
                   ELSE <<<<intv2[2] + 1, intv1[2]>>>>
              ELSE IF intv2[2] < intv1[2]
                   THEN <<<<intv2[2] + 1, intv1[2]>>>>
                   ELSE <<>>
    ELSE <<intv1>>

\* the while loop of difference() for one interval of self: (k, append, new)
RECURSIVE DifferenceWhile(_, _, _, _, _)
DifferenceWhile(interval, o, k, append, new) ==
    IF ~(k < Len(o)) THEN <<k, append, new>>
    ELSE IF _interval_intersect(interval, o[k + 1])
         THEN LET diff == _interval_difference(interval, o[k + 1])
              IN  IF diff # <<>>
                  THEN IF o[k + 1][2] <= interval[2]
                       THEN DifferenceWhile(interval, o, k + 1, TRUE, new \o diff)
                       ELSE <<k, TRUE, new \o diff>>
                  ELSE DifferenceWhile(interval, o, k + 1, TRUE, new)
         ELSE IF o[k + 1][1] > interval[2] /\ ~append
              THEN <<k + 1, TRUE, Append(new, interval)>>
              ELSE DifferenceWhile(interval, o, k + 1, append, new)
\* for interval in self.intervals, with the append after the while loop
RECURSIVE DifferenceFor(_, _, _, _)
DifferenceFor(rest, o, k, new) ==
    IF rest = <<>> THEN new
    ELSE LET w == DifferenceWhile(Head(rest), o, k, FALSE, new)
         IN  DifferenceFor(Tail(rest), o, w[1],
                           IF w[1] >= Len(o) /\ ~w[2]
                           THEN Append(w[3], Head(rest)) ELSE w[3])
\* difference()
difference(s, o) ==
    IF IntervalLen(o) = 0 THEN s
    ELSE IntervalOfIntervals(DifferenceFor(s, o, 0, <<>>))

\* what an operation returned: an Interval object, the bare list of tuples
\* union() returns for an empty other, or the truth value of ==
Returned(kind, intervals, equal) ==
    [kind |-> kind, intervals |-> intervals, equal |-> equal]

InitInterval ==
    /\ interval_lis = <<>>
    /\ interval_self = <<>>
    /\ interval_other = <<>>
    /\ interval_op = "none"
    /\ interval_result = Returned("none", <<>>, FALSE)

\* Interval.__init__ on a list
Interval_init(lis) ==
    /\ interval_lis' = lis
    /\ interval_self' = Interval(lis)
    /\ interval_other' = <<>>
    /\ interval_op' = "init"
    /\ interval_result' = Returned("Interval", Interval(lis), FALSE)
    /\ UNCHANGED othersInterval

\* two Intervals to operate on
Interval_operands(a, b) ==
    /\ interval_lis' = members(a)
    /\ interval_self' = a
    /\ interval_other' = b
    /\ interval_op' = "init"
    /\ interval_result' = Returned("Interval", a, FALSE)
    /\ UNCHANGED othersInterval

\* self.union(other)
Interval_union ==
    /\ interval_op # "none"
    /\ interval_op' = "union"
    /\ interval_result' =
         Returned(IF IntervalLen(interval_other) = 0 THEN "list" ELSE "Interval",
                  union(interval_self, interval_other), FALSE)
    /\ UNCHANGED <<interval_lis, interval_self, interval_other>>
    /\ UNCHANGED othersInterval

\* self.intersect(other)
Interval_intersect ==
    /\ interval_op # "none"
    /\ interval_op' = "intersect"
    /\ interval_result' =
         Returned("Interval", intersect(interval_self, interval_other), FALSE)
    /\ UNCHANGED <<interval_lis, interval_self, interval_other>>
    /\ UNCHANGED othersInterval

\* self.difference(other)
Interval_difference ==
    /\ interval_op # "none"
    /\ interval_op' = "difference"
    /\ interval_result' =
         Returned("Interval", difference(interval_self, interval_other), FALSE)
    /\ UNCHANGED <<interval_lis, interval_self, interval_other>>
    /\ UNCHANGED othersInterval

\* self == other
Interval_eq ==
    /\ interval_op # "none"
    /\ interval_op' = "eq"
    /\ interval_result' =
         Returned("bool", <<>>, IntervalEq(interval_self, interval_other))
    /\ UNCHANGED <<interval_lis, interval_self, interval_other>>
    /\ UNCHANGED othersInterval

NextInterval ==
    \/ \E lis \in IntervalLists : Interval_init(lis)
    \/ \E a \in Operands, b \in Operands : Interval_operands(a, b)
    \/ Interval_union
    \/ Interval_intersect
    \/ Interval_difference
    \/ Interval_eq

(***************************************************************************)
(* Merging in both orders and both groupings (gdbmiarec.py).  operands     *)
(* holds up to three aggregated records of one shape with pairwise         *)
(* disjoint rank sets; merged holds the two results being compared.        *)
(***************************************************************************)
MaxOperands == 3
NoMerge == <<>>
OperandRanks(ops) == UNION {MemberSet(ops[j].ids) : j \in 1 .. Len(ops)}
RemoveTwo(ops, i, j) ==
    [n \in 1 .. (Len(ops) - 2) |->
        LET kept == SelectSeq([m \in 1 .. Len(ops) |-> m],
                              LAMBDA m : m # i /\ m # j)
        IN  ops[kept[n]]]

InitMerge ==
    /\ operands = <<>>
    /\ merge_op = "none"
    /\ merge_results = NoMerge

\* GDBMIAggregatedRecord(record, vid) for a rank not yet among the operands
aggregate(r, rec) ==
    /\ Len(operands) < MaxOperands
    /\ r \notin OperandRanks(operands)
    /\ operands # <<>> => rec.names = operands[1].names
    /\ operands' = Append(operands, GDBMIAggregatedRecord(rec, r))
    /\ merge_op' = "aggregate"
    /\ merge_results' = NoMerge
    /\ UNCHANGED othersMerge

\* combine_aggregations(operands[i], operands[j]) takes the place of both
combine_operands(i, j) ==
    /\ i # j
    /\ \E m \in combine_aggregations(operands[i], operands[j]) :
          operands' = Append(RemoveTwo(operands, i, j), m)
    /\ merge_op' = "combine"
    /\ merge_results' = NoMerge
    /\ UNCHANGED othersMerge

\* combine_aggregations on copies of two operands, in either order
combine_both_orders(i, j) ==
    /\ i # j
    /\ \E ab \in combine_aggregations(operands[i], operands[j]),
          ba \in combine_aggregations(operands[j], operands[i]) :
          merge_results' = <<ab, ba>>
    /\ merge_op' = "orders"
    /\ UNCHANGED operands
    /\ UNCHANGED othersMerge

\* combine_aggregations on copies of three operands, in either grouping
combine_both_groupings ==
    /\ Len(operands) = 3
    /\ \E ab \in combine_aggregations(operands[1], operands[2]),
          bc \in combine_aggregations(operands[2], operands[3]) :
          \E ab_c \in combine_aggregations(ab, operands[3]),
             a_bc \in combine_aggregations(operands[1], bc) :
             merge_results' = <<ab_c, a_bc>>
    /\ merge_op' = "groupings"
    /\ UNCHANGED operands
    /\ UNCHANGED othersMerge

NextMerge ==
    \/ \E r \in Ranks, rec \in Records : aggregate(r, rec)
    \/ \E i \in 1 .. Len(operands), j \in 1 .. Len(operands) :
          combine_operands(i, j)
    \/ \E i \in 1 .. Len(operands), j \in 1 .. Len(operands) :
          combine_both_orders(i, j)
    \/ combine_both_groupings

(***************************************************************************)
(* The output history of the front-end (src/src/gdbfe.py).  Aggregated     *)
(* records are numbered in the order they arrive.                          *)
(*   fe_arec_list   - the records received since the last processing       *)
(*   output_history - the bounded history, newest first                    *)
(*   processed      - every record ever put on the history, oldest first   *)
(*   expanded       - what the last expand command looked up               *)
(***************************************************************************)
history_length == 2
MaxArecs == 4
MaxBatch == 2
MaxProcessed == 5
NoArec == 0

InitHistory ==
    /\ fe_arec_list = <<>>
    /\ output_history = <<>>
    /\ processed = <<>>
    /\ narecs = 0
    /\ expanded = NoArec

\* the batches a message may carry: one to MaxBatch fresh records
Batch(n) == [j \in 1 .. n |-> narecs + j]
\* combine_aggregated_records(fe_arec_list + batch): a record of the batch is
\* either merged into a record of the same type already listed or kept
Kept(batch) ==
    {SelectSeq(batch, LAMBDA a : a \in keep) : keep \in SUBSET SeqToSet(batch)}

\* GDBFE.out_handler
history_out_handler(n) ==
    /\ narecs + n <= MaxArecs
    /\ narecs' = narecs + n
    /\ IF fe_arec_list # <<>>
       THEN \E kept \in Kept(Batch(n)) : fe_arec_list' = fe_arec_list \o kept
       ELSE fe_arec_list' = Batch(n)
    /\ UNCHANGED <<output_history, processed, expanded>>
    /\ UNCHANGED othersHistory

\* a history push that drops the newest entry instead of the oldest
push_history_drop_newest(history, arec) ==
    IF Len(<<arec>> \o history) > history_length
    THEN history
    ELSE <<arec>> \o history

\* self.output_history = [arec] + self.output_history, then pop() of the
\* last element when the list is longer than history_length
push_history(history, arec) ==
    IF Len(<<arec>> \o history) > history_length
    THEN SubSeq(<<arec>> \o history, 1, Len(history))
    ELSE <<arec>> \o history

\* the for loop of process_out_messages over the first n records
RECURSIVE PushAll(_, _, _)
PushAll(history, arecs, n) ==
    IF n = 0 THEN history
    ELSE push_history(PushAll(history, arecs, n - 1), arecs[n])

\* GDBFE.process_out_messages: every record goes on the history and is
\* printed, and the list is emptied; a handler or printer that raises at
\* the n-th record leaves the list as it was
process_out_messages ==
    /\ fe_arec_list # <<>>
    /\ \E n \in 1 .. Len(fe_arec_list) :
          /\ output_history' = PushAll(output_history, fe_arec_list, n)
          /\ processed' = processed \o SubSeq(fe_arec_list, 1, n)
          /\ \/ n = Len(fe_arec_list) /\ fe_arec_list' = <<>>
             \/ UNCHANGED fe_arec_list
    /\ Len(processed') <= MaxProcessed
    /\ UNCHANGED <<narecs, expanded>>
    /\ UNCHANGED othersHistory

\* GDBFE.do_expand: the history item looked up, if there is one
do_expand(history_item) ==
    /\ expanded' = IF history_item >= Len(output_history) THEN NoArec
                   ELSE output_history[history_item + 1]
    /\ UNCHANGED <<fe_arec_list, output_history, processed, narecs>>
    /\ UNCHANGED othersHistory

NextHistory ==
    \/ \E n \in 1 .. MaxBatch : history_out_handler(n)
    \/ process_out_messages
    \/ \E history_item \in 0 .. history_length : do_expand(history_item)

(***************************************************************************)
(* The proc prefix: do_proc of the older front-end (pgdb/src/gdbfe.py),    *)
(* which queues the message for send_msg, and of the newer one             *)
(* (src/gdbfe.py), which checks the range and sends.                       *)
(*   proc_msg    - the target of the message the older do_proc queued      *)
(*   proc_result - the last prefix handled: the front-end, the             *)
(*                 specification, what became of it and the ranks the      *)
(*                 command was sent to                                     *)
(***************************************************************************)
\* the groups "a" and "a-b" of a specification, rank NumRanks being the
\* first one outside the job
ProcGroups == {<<a, b>> : a \in 0 .. NumRanks, b \in 0 .. NumRanks} \ 
              {g \in (0 .. NumRanks) \X (0 .. NumRanks) : g[1] > g[2]}
ProcInputs ==
    {[all |-> TRUE, groups |-> <<>>]}
    \cup {[all |-> FALSE, groups |-> <<g>>] : g \in ProcGroups}
    \cup {[all |-> FALSE, groups |-> <<g, h>>] : g \in ProcGroups, h \in ProcGroups}
NoTarget == [k |-> "none", v |-> <<>>, spec |-> [all |-> TRUE, groups |-> <<>>]]
ProcResult(frontend, spec, outcome, ranks) ==
    [frontend |-> frontend, spec |-> spec, outcome |-> outcome, ranks |-> ranks]

InitProc ==
    /\ proc_msg = NoTarget
    /\ proc_result = ProcResult("none", [all |-> TRUE, groups |-> <<>>], "none", {})

\* pgdb/src/gdbfe.py do_proc: the message is queued with the parsed target
do_proc_queue(spec) ==
    /\ proc_msg' = IF spec.all THEN [k |-> "int", v |-> <<-1>>, spec |-> spec]
                   ELSE [k |-> "interval", v |-> parse_proc_spec(spec).v,
                         spec |-> spec]
    /\ proc_result' = ProcResult("pgdb/src", spec, "queued", {})
    /\ UNCHANGED othersProc

\* pgdb/src/gdbfe.py remote_body: send_msg on the queued message
proc_send_msg ==
    /\ proc_msg # NoTarget
    /\ LET rank == IF proc_msg.k = "int" THEN [k |-> "int", v |-> proc_msg.v[1]]
                   ELSE [k |-> "interval", v |-> proc_msg.v]
           s == send_msg([rank |-> rank])
           rank_list == msg_rank_to_list(rank)
       IN  proc_result' =
             ProcResult("pgdb/src", proc_msg.spec,
                        IF s.sends THEN "sent" ELSE "bad rank",
                        IF ~s.sends THEN {}
                        ELSE IF rank.k = "interval" /\ IntervalEq(rank.v, all_ranks)
                        THEN Ranks
                        ELSE SeqToSet(rank_list))
    /\ proc_msg' = NoTarget
    /\ UNCHANGED othersProc

\* src/gdbfe.py do_proc: -1 - Interval raises TypeError; a non-empty
\* targets - get_mpiranks() is out of range; otherwise comm.send to targets
do_proc(spec) ==
    /\ proc_result' =
         IF spec.all THEN ProcResult("src", spec, "TypeError", {})
         ELSE LET targets == parse_proc_spec(spec).v
              IN  IF difference(targets, all_ranks) # <<>>
                  THEN ProcResult("src", spec, "out of range", {})
                  ELSE ProcResult("src", spec, "sent", MemberSet(targets))
    /\ UNCHANGED proc_msg
    /\ UNCHANGED othersProc

NextProc ==
    \/ \E spec \in ProcInputs : do_proc_queue(spec)
    \/ proc_send_msg
    \/ \E spec \in ProcInputs : do_proc(spec)

(***************************************************************************)
(* pgdb/src/mi/gdbmi_parser.py.  A line is a sequence of symbols: single   *)
(* characters, and the words of a result class, which stand for their      *)
(* letters.  No symbol is white space or a backslash.                      *)
(*   parser_pc     - "idle" between lines, "parsed" after one              *)
(*   last_parse    - the line parsed last and what became of it            *)
(*   kept_parse    - an earlier parse, kept for comparison                 *)
(*   class_subtypes, class_fields - GDBMIRecord.record_subtypes and        *)
(*                   GDBMIRecord.fields, the class attributes every record *)
(*                   without its own reads and mutates                     *)
(*   nparses       - how many lines were parsed; the identity of a record  *)
(***************************************************************************)
MaxValue == 4
MaxFields == 2
MaxParses == 2
ValueSymbols == {"x", "=", ",", "\"", "{", "}", "[", "]"}
RECURSIVE SymbolsUpTo(_)
SymbolsUpTo(n) ==
    IF n = 0 THEN {<<>>}
    ELSE SymbolsUpTo(n - 1) \cup
         {Append(t, c) : t \in {u \in SymbolsUpTo(n - 1) : Len(u) = n - 1},
                         c \in ValueSymbols}
\* how a line starts: a result record with or without token, an unknown
\* result class, a bare symbol, a stream record, no record symbol at all
LineHeads ==
    {<<"^", "done", ",">>, <<"1", "^", "done", ",">>, <<"^", "done">>,
     <<"^", "x">>, <<"^">>, <<"~">>, <<"x">>, <<>>}
Lines == {head \o rest : head \in LineHeads, rest \in SymbolsUpTo(MaxValue)}
\* lines of every record kind, for comparing parses
SampleLines ==
    {<<"^", "done">>, <<"^", "running">>, <<"1", "^", "done", ",", "x", "=", "\"", "\"">>,
     <<"=", "x">>, <<"=", "x", "x">>, <<"*", "x">>, <<"~", "x">>, <<"x">>}

_result_class == {"done", "running"}
_async_record_symbols == {"*", "="}
_stream_record_symbols == {"~"}
IsClassChar(c) == c \in {"x", "1", "done", "running"}

\* src[a:b] with 0-based a and b, as Python slices
Slice(src, a, b) == SubSeq(src, a + 1, Min2(b, Len(src)))
From(src, a) == SubSeq(src, a + 1, Len(src))
\* src.partition("="): the index of the first "=", 0 if there is none
FirstEq(src) ==
    IF \E j \in 1 .. Len(src) : src[j] = "="
    THEN CHOOSE j \in 1 .. Len(src) :
            src[j] = "=" /\ \A i \in 1 .. (j - 1) : src[i] # "="
    ELSE 0
\* the length of the longest prefix of src whose symbols satisfy a test
RECURSIVE DigitsLen(_)
DigitsLen(src) ==
    IF src # <<>> /\ IsDigit(Head(src)) THEN 1 + DigitsLen(Tail(src)) ELSE 0
RECURSIVE ClassLen(_)
ClassLen(src) ==
    IF src # <<>> /\ IsClassChar(Head(src)) THEN 1 + ClassLen(Tail(src)) ELSE 0

\* the first of two outcomes that is an exception
Then(first, second) == IF first # "ok" THEN first ELSE second

RECURSIVE parse_value(_), parse_tuple(_), parse_list(_), ListFor(_, _, _, _, _),
          parse_result_list(_), ResultWhile(_, _, _), ResultFor(_, _, _, _, _)

\* parse_value: "ok", or the exception raised; src[0] of an empty value
\* raises IndexError, anything but a tuple, list or constant ValueError
parse_value(src) ==
    IF src = <<>> THEN "IndexError"
    ELSE IF src[1] = "{" THEN parse_tuple(src)
    ELSE IF src[1] = "[" THEN parse_list(src)
    ELSE IF src[1] = "\"" THEN "ok"
    ELSE "ValueError"

\* parse_tuple
parse_tuple(src) ==
    IF src = <<"{", "}">> THEN "ok"
    ELSE parse_result_list(Slice(src, 1, Len(src) - 1))

\* the for loop of parse_list from position end on, then the last value
ListFor(src, end, brackets, in_quote, start) ==
    IF end = Len(src)
    THEN IF Slice(src, start, end) # <<>>
         THEN parse_value(Slice(src, start, end)) ELSE "ok"
    ELSE LET char == src[end + 1]
         IN  IF char \in {"{", "["} /\ ~in_quote
             THEN ListFor(src, end + 1, brackets + 1, in_quote, start)
             ELSE IF char \in {"}", "]"} /\ ~in_quote
             THEN ListFor(src, end + 1, brackets - 1, in_quote, start)
             ELSE IF char = "\""
             THEN ListFor(src, end + 1, brackets, ~in_quote, start)
             ELSE IF char = "=" /\ brackets = 0 /\ ~in_quote
             THEN parse_result_list(src)
             ELSE IF char = "," /\ brackets = 0 /\ ~in_quote
             THEN Then(parse_value(Slice(src, start, end)),
                       ListFor(src, end + 1, brackets, in_quote, end + 1))
             ELSE ListFor(src, end + 1, brackets, in_quote, start)

\* parse_list
parse_list(src) ==
    IF src = <<"[", "]">> THEN "ok"
    ELSE ListFor(Slice(src, 1, Len(src) - 1), 0, 0, FALSE, 0)

\* the for loop of parse_result_list over right from position length on;
\* variable is the text before the "="
ResultFor(variable, right, length, brackets, in_quote) ==
    IF length = Len(right)
    THEN \* no comma ended the value: the loop is left, "Parse last entry"
         IF variable # <<>> /\ right # <<>> THEN parse_value(right) ELSE "ok"
    ELSE LET char == right[length + 1]
         IN  IF char \in {"{", "["} /\ ~in_quote
             THEN ResultFor(variable, right, length + 1, brackets + 1, in_quote)
             ELSE IF char \in {"}", "]"} /\ ~in_quote
             THEN ResultFor(variable, right, length + 1, brackets - 1, in_quote)
             ELSE IF char = "\""
             THEN ResultFor(variable, right, length + 1, brackets, ~in_quote)
             ELSE IF char = "," /\ brackets = 0 /\ ~in_quote
             THEN Then(parse_value(Slice(right, 0, length)),
                       ResultWhile(From(right, length + 1), brackets, in_quote))
             ELSE ResultFor(variable, right, length + 1, brackets, in_quote)

\* one turn of the while loop of parse_result_list
ResultWhile(src, brackets, in_quote) ==
    IF FirstEq(src) = 0 THEN "ok"
    ELSE ResultFor(Slice(src, 0, FirstEq(src) - 1), From(src, FirstEq(src)),
                   0, brackets, in_quote)

\* parse_result_list
parse_result_list(src) == ResultWhile(src, 0, FALSE)

\* the results of an async record: async_re takes the class and, if a
\* comma follows it, the rest, whose first comma is removed
parse_async_output(rest) ==
    IF ClassLen(rest) < Len(rest) /\ rest[ClassLen(rest) + 1] = ","
    THEN parse_result_list(From(rest, ClassLen(rest) + 1))
    ELSE "ok"

\* int(token) of a token of n digits, each of them 1
RECURSIVE Ones(_)
Ones(n) == IF n = 0 THEN 0 ELSE 10 * Ones(n - 1) + 1

\* a record as create_record leaves it, or the exception that was raised;
\* own says whether record_subtypes and fields are attributes of the record
\* itself; if not, the record reads those of the class
ParsedRecord(raised, type, own, subtypes, token, fields, text, id) ==
    [raised |-> raised, type |-> type, own |-> own, subtypes |-> subtypes,
     token |-> token, fields |-> fields, text |-> text, id |-> id]
Raised(e) == ParsedRecord(e, "none", TRUE, {}, NoToken, <<>>, <<>>, 0)
\* None in the place of a record; there is one None
NoneRecord == ParsedRecord("none", "None", TRUE, {}, NoToken, <<>>, <<>>, 0)
NoParse == [line |-> <<>>, record |-> Raised("not parsed")]

InitParser ==
    /\ parser_pc = "idle"
    /\ last_parse = NoParse
    /\ kept_parse = NoParse
    /\ class_subtypes = {}
    /\ class_fields = <<>>
    /\ nparses = 0

\* the class attributes after the record of a line was created: a result
\* record adds its class to the shared set, an async record its class to
\* the set and "frame" to the shared list, before thread-id is looked up
SubtypesAfter(line, subtypes) ==
    LET n == DigitsLen(line)
        rest == From(line, n + 1)
    IN  IF n < Len(line) /\ line[n + 1] = "^" /\ rest # <<>>
           /\ Head(rest) \in _result_class
           /\ parse_result_list(From(rest, 2)) = "ok"
        THEN subtypes \cup {<<Head(rest)>>}
        ELSE IF n < Len(line) /\ line[n + 1] \in _async_record_symbols
                /\ parse_async_output(rest) = "ok"
        THEN subtypes \cup {SubSeq(rest, 1, ClassLen(rest))}
        ELSE subtypes
FieldsAfter(line, fields) ==
    LET n == DigitsLen(line)
        rest == From(line, n + 1)
    IN  IF n < Len(line) /\ line[n + 1] \in _async_record_symbols
           /\ parse_async_output(rest) = "ok"
        THEN Append(fields, "frame")
        ELSE fields

\* parse_output on one line, the class attributes being subtypes and
\* fields: the record appended, or the exception
GDBMIParser_parse_output(line, subtypes, fields, id) ==
    LET n == DigitsLen(line)
        token == IF n = 0 THEN NoToken ELSE Ones(n)
        rest == From(line, n + 1)
    IN  IF ~(n < Len(line)
             /\ line[n + 1] \in {"^"} \cup _async_record_symbols
                                \cup _stream_record_symbols)
        THEN \* no match of output_re: an unknown record with the line
             ParsedRecord("none", "UNKNOWN", FALSE, subtypes, NoToken,
                          fields, line, id)
        ELSE IF line[n + 1] = "^"
        THEN \* parse_result_record
             IF rest = <<>> \/ Head(rest) \notin _result_class
             THEN Raised("ValueError")
             ELSE IF parse_result_list(From(rest, 2)) # "ok"
             THEN Raised(parse_result_list(From(rest, 2)))
             ELSE \* GDBMIResultRecord.create_record ends without a
                  \* return statement: None is appended
                  NoneRecord
        ELSE IF line[n + 1] \in _async_record_symbols
        THEN \* parse_async_record; an exec record without thread-id is a
             \* KeyError in create_record
             IF parse_async_output(rest) # "ok"
             THEN Raised(parse_async_output(rest))
             ELSE IF line[n + 1] = "*" THEN Raised("KeyError")
             ELSE ParsedRecord("none", "NOTIFY", FALSE,
                               SubtypesAfter(line, subtypes), token,
                               FieldsAfter(line, fields), <<>>, id)
        ELSE \* parse_stream_record
             ParsedRecord("none", "CONSOLE", TRUE, {}, NoToken, <<"string">>,
                          rest, id)

\* record_subtypes and fields as a reader of the record finds them now
record_subtypes(record) ==
    IF record.own THEN record.subtypes ELSE class_subtypes
record_fields(record) ==
    IF record.own THEN record.fields ELSE class_fields

\* GDBMIParser.parse_output reaches a line
parse_output_line(line, keep) ==
    /\ parser_pc = "idle"
    /\ nparses < MaxParses
    /\ Len(FieldsAfter(line, class_fields)) <= MaxFields
    /\ parser_pc' = "parsed"
    /\ nparses' = nparses + 1
    /\ last_parse' =
           [line |-> line,
            record |-> GDBMIParser_parse_output(line, class_subtypes,
                                                class_fields, nparses')]
    /\ kept_parse' = IF keep THEN last_parse' ELSE kept_parse
    /\ class_subtypes' = SubtypesAfter(line, class_subtypes)
    /\ class_fields' = FieldsAfter(line, class_fields)
    /\ UNCHANGED othersParser

\* the loop of parse_output goes on to the next line, or the caller calls
\* parse_output again
parse_output_continue ==
    /\ parser_pc = "parsed"
    /\ parser_pc' = "idle"
    /\ last_parse' = NoParse
    /\ UNCHANGED <<kept_parse, class_subtypes, class_fields, nparses>>
    /\ UNCHANGED othersParser

NextParser ==
    \/ /\ parser_pc = "idle"
       /\ \E line \in Lines : parse_output_line(line, FALSE)
    \/ parse_output_continue

NextRecords ==
    \/ \E line \in SampleLines, keep \in BOOLEAN : parse_output_line(line, keep)
    \/ parse_output_continue

(***************************************************************************)
(* Communicator._construct_mrnet_topology (pgdb/src/comm.py) and           *)
(* GDBFE.construct_topology (pgdb/src/gdbfe.py), each followed by          *)
(* MRN.Network.CreateNetworkFE in its init_mrnet.                          *)
(*   topo_pc     - "idle" before init_mrnet, "done" after it               *)
(*   topo_result - what init_mrnet was called with and what it did         *)
(***************************************************************************)
MaxHosts == 4
MaxBranch == 3
HostNames == {"h1", "h2", "h3", "h4"}
FrontEndHosts == HostNames \cup {"fe"}
\* list(set(...)) of the host names of the process table: the hosts of a
\* non-empty set in any order
RECURSIVE OrdersOf(_)
OrdersOf(S) ==
    IF S = {} THEN {<<>>}
    ELSE UNION {{<<h>> \o rest : rest \in OrdersOf(S \ {h})} : h \in S}
LmonHosts ==
    UNION {OrdersOf(S) : S \in {T \in SUBSET HostNames :
                                    T # {} /\ Cardinality(T) <= MaxHosts}}

\* lis[:n] and what del lis[:n] leaves
Take(lis, n) == SubSeq(lis, 1, Min2(n, Len(lis)))
Drop(lis, n) == SubSeq(lis, Min2(n, Len(lis)) + 1, Len(lis))

\* the while loop that writes the topology file: one line for each parent
\* that gets children
RECURSIVE WriteTopology(_, _, _, _, _)
WriteTopology(host_list, cur_parents, new_parents, branch_factor, written) ==
    IF cur_parents = <<>>
    THEN \* the for loop is over
         IF host_list = <<>> THEN written
         ELSE WriteTopology(host_list, new_parents, <<>>, branch_factor,
                            written)
    ELSE LET kids == Take(host_list, branch_factor)
         IN  WriteTopology(Drop(host_list, branch_factor), Tail(cur_parents),
                           new_parents \o kids, branch_factor,
                           IF kids # <<>>
                           THEN Append(written, <<Head(cur_parents), kids>>)
                           ELSE written)

TopoResult(fn, lmon_hosts, cur_host, branch_factor, num_nodes, host_list,
           exited, written) ==
    [fn |-> fn, lmon_hosts |-> lmon_hosts, cur_host |-> cur_host,
     branch_factor |-> branch_factor, num_nodes |-> num_nodes,
     host_list |-> host_list, exited |-> exited, topology |-> written,
     network |-> ~exited]
NoTopo == TopoResult("none", <<>>, "fe", 1, 0, <<>>, FALSE, <<>>)

InitTopo ==
    /\ topo_pc = "idle"
    /\ topo_result = NoTopo

\* Communicator._construct_mrnet_topology; an empty comm_nodes is None
_construct_mrnet_topology(lmon_hosts, comm_nodes, cur_host, branch_factor) ==
    LET num_nodes == (Len(lmon_hosts) \div branch_factor) + 1
        host_list == IF comm_nodes # <<>> THEN comm_nodes
                     ELSE Take(lmon_hosts, num_nodes)
    IN  IF comm_nodes # <<>> /\ Len(comm_nodes) < num_nodes
        THEN TopoResult("comm", lmon_hosts, cur_host, branch_factor,
                        num_nodes, host_list, TRUE, <<>>)
        ELSE IF cur_host \in SeqToSet(host_list)
        THEN TopoResult("comm", lmon_hosts, cur_host, branch_factor,
                        num_nodes, host_list, TRUE, <<>>)
        ELSE TopoResult("comm", lmon_hosts, cur_host, branch_factor,
                        num_nodes, host_list, FALSE,
                        WriteTopology(host_list, <<cur_host>>, <<>>,
                                      branch_factor, <<>>))

\* GDBFE.construct_topology
construct_topology(hostlist, cur_host, branch_factor) ==
    IF cur_host \in SeqToSet(hostlist)
    THEN TopoResult("gdbfe", hostlist, cur_host, branch_factor, 0, hostlist,
                    TRUE, <<>>)
    ELSE TopoResult("gdbfe", hostlist, cur_host, branch_factor, 0, hostlist,
                    FALSE,
                    WriteTopology(hostlist, <<cur_host>>, <<>>,
                                  branch_factor, <<>>))

\* Communicator.init_mrnet, not local: the topology, then the network
Communicator_init_mrnet(lmon_hosts, cur_host, branch_factor) ==
    /\ topo_pc = "idle"
    /\ topo_pc' = "done"
    /\ topo_result' = _construct_mrnet_topology(lmon_hosts, <<>>, cur_host,
                                                branch_factor)
    /\ UNCHANGED othersTopo

\* GDBFE.init_mrnet
GDBFE_init_mrnet(hostlist, cur_host, branch_factor) ==
    /\ topo_pc = "idle"
    /\ topo_pc' = "done"
    /\ topo_result' = construct_topology(hostlist, cur_host, branch_factor)
    /\ UNCHANGED othersTopo

\* another run of the front-end
topo_restart ==
    /\ topo_pc = "done"
    /\ topo_pc' = "idle"
    /\ topo_result' = NoTopo
    /\ UNCHANGED othersTopo

NextTopo ==
    \/ \E lmon_hosts \in LmonHosts, cur_host \in FrontEndHosts,
          branch_factor \in 1 .. MaxBranch :
          Communicator_init_mrnet(lmon_hosts, cur_host, branch_factor)
    \/ \E hostlist \in LmonHosts, cur_host \in FrontEndHosts,
          branch_factor \in 1 .. MaxBranch :
          GDBFE_init_mrnet(hostlist, cur_host, branch_factor)
    \/ topo_restart

(***************************************************************************)
(* GDBMachineInterface.read (pgdb/src/mi/gdbmi.py) on the stdout of the    *)
(* debugger; mi/gdbmi.py has the same loop around its own parser.          *)
(*   rd_written - everything the debugger has written, symbol by symbol    *)
(*   rd_pipe    - what it has written and read() has not yet taken         *)
(*   rd_buffer  - self.buffer                                              *)
(*   rd_parsed  - the lines whose records read() has yielded               *)
(*   rd_raised  - an exception has left read() and ended its caller        *)
(***************************************************************************)
MaxStream == 6
StreamSymbols == {"x", "*", "\n"}

\* the index of the last and of the first newline of s, 0 without one
LastNl(s) ==
    IF \E i \in 1 .. Len(s) : s[i] = "\n"
    THEN CHOOSE i \in 1 .. Len(s) :
            s[i] = "\n" /\ \A j \in (i + 1) .. Len(s) : s[j] # "\n"
    ELSE 0
FirstNl(s) ==
    IF \E i \in 1 .. Len(s) : s[i] = "\n"
    THEN CHOOSE i \in 1 .. Len(s) :
            s[i] = "\n" /\ \A j \in 1 .. (i - 1) : s[j] # "\n"
    ELSE 0
\* s.rpartition("\n"): <<before, nl, after>>; without a newline everything
\* is in after
rpartition(s) ==
    IF LastNl(s) = 0 THEN <<<<>>, <<>>, s>>
    ELSE <<SubSeq(s, 1, LastNl(s) - 1), <<"\n">>,
           SubSeq(s, LastNl(s) + 1, Len(s))>>
\* src.split("\n")
RECURSIVE SplitLines(_)
SplitLines(src) ==
    IF FirstNl(src) = 0 THEN <<src>>
    ELSE <<SubSeq(src, 1, FirstNl(src) - 1)>>
            \o SplitLines(SubSeq(src, FirstNl(src) + 1, Len(src)))
\* whether parse_output raises on one of the lines
LinesRaise(lines) ==
    \E i \in 1 .. Len(lines) :
        GDBMIParser_parse_output(lines[i], {}, <<>>, 1).raised # "none"

InitReader ==
    /\ rd_written = <<>>
    /\ rd_pipe = <<>>
    /\ rd_buffer = <<>>
    /\ rd_parsed = <<>>
    /\ rd_raised = FALSE

\* the debugger writes to its stdout
gdb_stdout_write(c) ==
    /\ Len(rd_written) < MaxStream
    /\ rd_written' = Append(rd_written, c)
    /\ rd_pipe' = Append(rd_pipe, c)
    /\ UNCHANGED <<rd_buffer, rd_parsed, rd_raised>>
    /\ UNCHANGED othersReader

\* read(): select finds data, stdout.read() takes what is there, the lines
\* up to the last newline are parsed and their records yielded; the second
\* turn of the while loop finds no newline and returns
GDBMachineInterface_read ==
    /\ ~rd_raised
    /\ rd_pipe # <<>>
    /\ LET parts == rpartition(rd_buffer \o rd_pipe)
       IN  /\ rd_buffer' = parts[3]
           /\ IF parts[2] = <<>>
              THEN UNCHANGED <<rd_parsed, rd_raised>>
              ELSE IF LinesRaise(SplitLines(parts[1]))
              THEN rd_raised' = TRUE /\ UNCHANGED rd_parsed
              ELSE /\ rd_parsed' = rd_parsed \o SplitLines(parts[1])
                   /\ UNCHANGED rd_raised
    /\ rd_pipe' = <<>>
    /\ UNCHANGED rd_written
    /\ UNCHANGED othersReader

NextReader ==
    \/ \E c \in StreamSymbols : gdb_stdout_write(c)
    \/ GDBMachineInterface_read

(***************************************************************************)
(* block and unblock (do_block, do_unblock of src/gdbfe.py and of          *)
(* pgdb/src/gdbfe.py, the same code) and the printing of output.           *)
(*   fe_blocks - self.blocks, a list of ranks                              *)
(*   blk_last  - the last block or unblock command and what it did         *)
(*   blk_out   - the last output record that arrived: its rank, whether    *)
(*               the rank was blocked and whether the record was printed   *)
(***************************************************************************)
\* the processor specifications typed behind block and unblock: all, or
\* one group a-b
BlockSpecs ==
    {[all |-> TRUE, groups |-> <<>>]}
    \cup {[all |-> FALSE, groups |-> <<g>>] : g \in ProcGroups}
BlockResult(op, spec, before, outcome) ==
    [op |-> op, spec |-> spec, before |-> before, outcome |-> outcome]
NoBlock == BlockResult("none", [all |-> TRUE, groups |-> <<>>], <<>>, "none")
NoOut == [rank |-> 0, blocked |-> FALSE, printed |-> FALSE, frontend |-> "none"]

InitBlock ==
    /\ fe_blocks = <<>>
    /\ blk_last = NoBlock
    /\ blk_out = NoOut

\* the for loop of do_block over to_block.members()
RECURSIVE BlockTargets(_, _)
BlockTargets(blocked, targets) ==
    IF targets = <<>> THEN blocked
    ELSE BlockTargets(IF Head(targets) \notin SeqToSet(blocked)
                         /\ in_interval(all_ranks, Head(targets))
                      THEN Append(blocked, Head(targets)) ELSE blocked,
                      Tail(targets))

\* do_block; parse_proc_spec gives -1 for all, which has no members()
do_block(spec) ==
    /\ LET to_block == parse_proc_spec(spec)
       IN  IF to_block.k = "int"
           THEN /\ blk_last' = BlockResult("block", spec, fe_blocks,
                                           "AttributeError")
                /\ UNCHANGED fe_blocks
           ELSE /\ fe_blocks' = BlockTargets(fe_blocks, members(to_block.v))
                /\ blk_last' = BlockResult("block", spec, fe_blocks, "done")
    /\ UNCHANGED blk_out
    /\ UNCHANGED othersBlock

\* the first loop of do_unblock: the positions, counted from 0, of the
\* blocked ranks that are in to_unblock
KeysOf(blocked, to_unblock) ==
    LET RECURSIVE Scan(_)
        Scan(k) ==
            IF k >= Len(blocked) THEN <<>>
            ELSE (IF in_interval(to_unblock, blocked[k + 1]) THEN <<k>>
                  ELSE <<>>) \o Scan(k + 1)
    IN  Scan(0)
\* the second loop of do_unblock: del self.blocks[k] for each key in turn;
\* an IndexError ends it with the list as it is then
RECURSIVE DelKeys(_, _)
DelKeys(blocked, ks) ==
    IF ks = <<>> THEN [blocks |-> blocked, outcome |-> "done"]
    ELSE IF Head(ks) >= Len(blocked)
    THEN [blocks |-> blocked, outcome |-> "IndexError"]
    ELSE DelKeys(SubSeq(blocked, 1, Head(ks))
                    \o SubSeq(blocked, Head(ks) + 2, Len(blocked)),
                 Tail(ks))

\* do_unblock; `v in to_unblock` is a TypeError if to_unblock is -1
do_unblock(spec) ==
    /\ LET to_unblock == parse_proc_spec(spec)
       IN  IF to_unblock.k = "int"
           THEN /\ blk_last' = BlockResult("unblock", spec, fe_blocks,
                                  IF fe_blocks = <<>> THEN "done"
                                  ELSE "TypeError")
                /\ UNCHANGED fe_blocks
           ELSE LET deleted == DelKeys(fe_blocks,
                                       KeysOf(fe_blocks, to_unblock.v))
                IN  /\ fe_blocks' = deleted.blocks
                    /\ blk_last' = BlockResult("unblock", spec, fe_blocks,
                                               deleted.outcome)
    /\ UNCHANGED blk_out
    /\ UNCHANGED othersBlock

\* pgdb/src/gdbfe.py out_handler: the record is printed unless its rank is
\* in self.blocks
pgdb_out_handler(rank) ==
    /\ blk_out' = [rank |-> rank, blocked |-> rank \in SeqToSet(fe_blocks),
                   printed |-> rank \notin SeqToSet(fe_blocks),
                   frontend |-> "pgdb"]
    /\ UNCHANGED <<fe_blocks, blk_last>>
    /\ UNCHANGED othersBlock

\* src/gdbfe.py out_handler and process_out_messages: the record is put on
\* arec_list and printed; self.blocks is not read
fe_out_handler(rank) ==
    /\ blk_out' = [rank |-> rank, blocked |-> rank \in SeqToSet(fe_blocks),
                   printed |-> TRUE, frontend |-> "src"]
    /\ UNCHANGED <<fe_blocks, blk_last>>
    /\ UNCHANGED othersBlock

NextBlock ==
    \/ \E spec \in BlockSpecs : do_block(spec)
    \/ \E spec \in BlockSpecs : do_unblock(spec)
    \/ \E rank \in Ranks : pgdb_out_handler(rank)
    \/ \E rank \in Ranks : fe_out_handler(rank)

(***************************************************************************)
(* The recursive lock of the communicator (pgdb/src/comm.py) with locking  *)
(* on, as the front-end creates it: the transport thread calls recv in the *)
(* loop of remote_body, the input thread calls send.                       *)
(*   lock_holder - the thread that holds self.lock: "none", "transport",   *)
(*                 "input"                                                 *)
(*   lock_depth  - how often the holder has acquired it                    *)
(*   xport_pc    - the transport thread: "loop" between two calls of recv, *)
(*                 "stash" in recv behind _lock, "recv" before _recv,      *)
(*                 "multi" in _recv_multi_message, "dead" after an         *)
(*                 exception or sys.exit has ended the thread              *)
(*   input_pc    - the input thread: "idle", "waiting" for the lock in     *)
(*                 send, "sending" with it, "dead"                         *)
(*   stash_len   - len(self.recv_stash)                                    *)
(*   multi_left  - payloads the multi-message still lacks                  *)
(*   lock_return - the last return of recv or send: its path and the       *)
(*                 holds of the calling thread at call and at return       *)
(***************************************************************************)
MaxDepth == 3
MaxStash == 2
MaxMulti == 2

\* how often a thread holds the lock
Holds(thread) == IF lock_holder = thread THEN lock_depth ELSE 0
\* threading.RLock: acquire succeeds for the holder and on a free lock
CanAcquire(thread) == lock_holder \in {"none", thread}
LockReturn(fn, path, before, after) ==
    [fn |-> fn, path |-> path, before |-> before, after |-> after]
NoReturn == LockReturn("none", "none", 0, 0)

InitLock ==
    /\ lock_holder = "none"
    /\ lock_depth = 0
    /\ xport_pc = "loop"
    /\ input_pc = "idle"
    /\ stash_len = 0
    /\ multi_left = 0
    /\ lock_return = NoReturn

\* recv: self._lock()
recv_lock ==
    /\ xport_pc = "loop"
    /\ CanAcquire("transport")
    /\ lock_depth < MaxDepth
    /\ lock_holder' = "transport"
    /\ lock_depth' = lock_depth + 1
    /\ xport_pc' = "stash"
    /\ UNCHANGED <<input_pc, stash_len, multi_left, lock_return>>
    /\ UNCHANGED othersLock

\* recv: a stashed message is popped and returned, the lock still held;
\* without one the lock is released and _recv is next
recv_pop_stash ==
    /\ xport_pc = "stash"
    /\ IF stash_len > 0
       THEN /\ stash_len' = stash_len - 1
            /\ xport_pc' = "loop"
            /\ lock_return' = LockReturn("recv", "stashed", lock_depth - 1,
                                         lock_depth)
            /\ UNCHANGED <<lock_holder, lock_depth>>
       ELSE /\ lock_depth' = lock_depth - 1
            /\ lock_holder' = IF lock_depth = 1 THEN "none" ELSE lock_holder
            /\ xport_pc' = "recv"
            /\ UNCHANGED <<stash_len, lock_return>>
    /\ UNCHANGED <<input_pc, multi_left>>
    /\ UNCHANGED othersLock

\* _recv from recv, lock to unlock or to the statement that ends the
\* thread: nothing there, a message, the head of a multi-message of n
\* payloads, a packet with COMP_TAG (msg is read before it is assigned), a
\* network failure (sys.exit in a thread ends the thread)
recv_recv(outcome, n) ==
    /\ xport_pc = "recv"
    /\ CanAcquire("transport")
    /\ IF outcome \in {"UnboundLocalError", "SystemExit"}
       THEN /\ lock_holder' = "transport"
            /\ lock_depth' = lock_depth + 1
            /\ xport_pc' = "dead"
            /\ UNCHANGED <<multi_left, lock_return>>
       ELSE /\ UNCHANGED <<lock_holder, lock_depth>>
            /\ IF outcome = "multi"
               THEN /\ multi_left' = n
                    /\ xport_pc' = "multi"
                    /\ UNCHANGED lock_return
               ELSE /\ xport_pc' = "loop"
                    /\ lock_return' = LockReturn("recv", outcome,
                                          Holds("transport"), Holds("transport"))
                    /\ UNCHANGED multi_left
    /\ UNCHANGED <<input_pc, stash_len>>
    /\ UNCHANGED othersLock

\* one turn of the inner loop of _recv_multi_message: _recv, then the
\* payload is added or another message is stashed under the lock; after
\* the last payload recv returns
recv_multi_turn(outcome) ==
    /\ xport_pc = "multi"
    /\ CanAcquire("transport")
    /\ UNCHANGED <<lock_holder, lock_depth, input_pc>>
    /\ IF outcome = "payload"
       THEN /\ multi_left' = multi_left - 1
            /\ UNCHANGED stash_len
            /\ IF multi_left = 1
               THEN /\ xport_pc' = "loop"
                    /\ lock_return' = LockReturn("recv", "multi",
                                          Holds("transport"), Holds("transport"))
               ELSE UNCHANGED <<xport_pc, lock_return>>
       ELSE /\ stash_len < MaxStash
            /\ stash_len' = stash_len + 1
            /\ UNCHANGED <<multi_left, xport_pc, lock_return>>
    /\ UNCHANGED othersLock

\* send is called: the message is pickled, then self._lock()
send_call ==
    /\ input_pc = "idle"
    /\ input_pc' = "waiting"
    /\ UNCHANGED <<lock_holder, lock_depth, xport_pc, stash_len, multi_left,
                   lock_return>>
    /\ UNCHANGED othersLock

\* send: the lock is acquired
send_lock ==
    /\ input_pc = "waiting"
    /\ CanAcquire("input")
    /\ lock_holder' = "input"
    /\ lock_depth' = lock_depth + 1
    /\ input_pc' = "sending"
    /\ UNCHANGED <<xport_pc, stash_len, multi_left, lock_return>>
    /\ UNCHANGED othersLock

\* send: the payloads are sent and the lock is released, or a stream
\* error ends in sys.exit(1) with the lock held
send_payloads(ok) ==
    /\ input_pc = "sending"
    /\ IF ok
       THEN /\ lock_depth' = lock_depth - 1
            /\ lock_holder' = IF lock_depth = 1 THEN "none" ELSE lock_holder
            /\ input_pc' = "idle"
            /\ lock_return' = LockReturn("send", "sent", 0, 0)
       ELSE /\ input_pc' = "dead"
            /\ UNCHANGED <<lock_holder, lock_depth, lock_return>>
    /\ UNCHANGED <<xport_pc, stash_len, multi_left>>
    /\ UNCHANGED othersLock

NextLock ==
    \/ recv_lock
    \/ recv_pop_stash
    \/ \E outcome \in {"nothing", "message", "multi", "UnboundLocalError",
                       "SystemExit"}, n \in 1 .. MaxMulti :
          recv_recv(outcome, n)
    \/ \E outcome \in {"payload", "other"} : recv_multi_turn(outcome)
    \/ send_call
    \/ send_lock
    \/ \E ok \in BOOLEAN : send_payloads(ok)

Init ==
    /\ InitArec /\ InitCmd /\ InitOrd /\ InitLife /\ InitMulti /\ InitRelay
    /\ InitFilter /\ InitSBD /\ InitVarprint /\ InitToken /\ InitHandler /\ InitInterval /\ InitMerge /\ InitHistory /\ InitProc /\ InitParser /\ InitTopo /\ InitReader /\ InitBlock /\ InitLock

SpecArec == Init /\ [][NextArec]_vars

\* every aggregated record in flight
Arecs == UNION {SeqToSet(l) : l \in lists}
\* the ranks whose contribution has the skeleton of arec
OneShape(arec) == \A r \in MemberSet(arec.ids) : orig[r].names = arec.names
\* what combine_aggregation_lists compares before it merges two records
ShapeOf(names) == <<identify(names), Len(names)>>
\* the ranks of arec whose contributed leaf k is v (a list and its tuple alike)
Holders(arec, k, v) ==
    {r \in MemberSet(arec.ids) : CounterKey(orig[r].vals[k]) = CounterKey(v)}

(***************************************************************************)
(* C1: for single-rank records of one shape from pairwise distinct ranks,  *)
(* merged in any order and grouping, get_record(r) on the merged record    *)
(* returns, for every rank r of its rank set, the record rank r            *)
(* contributed.                                                            *)
(***************************************************************************)
C1_GetRecordReturnsOriginal ==
    \A arec \in Arecs :
        OneShape(arec) =>
            \A r \in MemberSet(arec.ids) : get_record(arec, r) = orig[r]

\* C1 witness: a record merged from all ranks, of one shape, whose leaf is
\* a string at one rank and a list at another, with overrides in use
C1_Witness ==
    \E arec \in Arecs :
        /\ OneShape(arec)
        /\ MemberSet(arec.ids) = Ranks
        /\ arec.subs[1].o # EmptyDict
        /\ \E r1 \in Ranks, r2 \in Ranks :
              orig[r1].vals[1] = StrA /\ orig[r2].vals[1] = ListA
        /\ \A r \in Ranks : get_record(arec, r) = orig[r]

(***************************************************************************)
(* C2: combining two lists of aggregated records never drops an input:     *)
(* every rank that contributed a record is still in the rank set of a      *)
(* record of its shape in some list.                                       *)
(***************************************************************************)
C2_NoInputDropped ==
    \A r \in Ranks :
        orig[r] # None =>
            \E arec \in Arecs :
                /\ r \in MemberSet(arec.ids)
                /\ ShapeOf(arec.names) = ShapeOf(orig[r].names)

(***************************************************************************)
(* C3: after every merge of same-shape records the default of each         *)
(* substitution is a value of maximal tally: no value is held by strictly  *)
(* more ranks of the merged rank set than the default.                     *)
(***************************************************************************)
C3_DefaultIsMaximal ==
    \A arec \in Arecs :
        OneShape(arec) =>
            \A k \in 1 .. Len(arec.subs) : \A v \in Vals :
                Cardinality(Holders(arec, k, v))
                    <= Cardinality(Holders(arec, k, arec.subs[k].d))

SpecCmd == Init /\ [][NextCmd]_vars

\* the message is out of the front-end's hands and in no back-end's inbox
Settled(msg) ==
    /\ in_msg # msg
    /\ \A j \in 1 .. Len(msg_queue) : msg_queue[j] # msg
    /\ \A b \in BackEnds : \A j \in 1 .. Len(net[b]) : net[b][j] # msg
\* the messages whose address is an Interval of ranks of the job
IntervalCmds ==
    {issued[j] : j \in {i \in 1 .. Len(issued) :
                           /\ issued[i].rank.k = "interval"
                           /\ MemberSet(issued[i].rank.v) \subseteq Ranks}}
\* the address is every rank, or ranks of the job only
AddressedWithinJob(msg) ==
    msg.rank.k = "int" \/ MemberSet(msg.rank.v) \subseteq Ranks
\* the ids in seq never decrease along it
InIssueOrder(seq) == \A i \in 1 .. Len(seq) : \A j \in 1 .. Len(seq) : i < j => seq[i] < seq[j]

(***************************************************************************)
(* C4: a command addressed at Interval I (of ranks of the job) is run by   *)
(* exactly the ranks in I: no rank runs it twice, no rank outside I runs   *)
(* it, and once it has been sent and handled every rank in I has run it    *)
(* once.                                                                   *)
(***************************************************************************)
C4_ExactlyTheRanksOfI ==
    \A msg \in IntervalCmds : \A r \in Ranks :
        /\ Count(ran[r], msg.id) <= 1
        /\ Count(ran[r], msg.id) > 0 => r \in MemberSet(msg.rank.v)
        /\ (Settled(msg) /\ r \in MemberSet(msg.rank.v)) => Count(ran[r], msg.id) = 1

(***************************************************************************)
(* C5: commands are observed in issue order and every issued command is    *)
(* sent exactly once: each back-end handles the commands that reach it in  *)
(* the order they were issued, and a message addressed at every rank or at *)
(* ranks of the job that has left the queue has been put on a stream       *)
(* exactly once.                                                           *)
(***************************************************************************)
C5_IssueOrderSentOnce ==
    /\ \A b \in BackEnds : InIssueOrder(handled[b])
    /\ \A j \in 1 .. Len(issued) :
          /\ Count(sent, j) <= 1
          /\ (/\ AddressedWithinJob(issued[j])
              /\ in_msg # issued[j]
              /\ \A i \in 1 .. Len(msg_queue) : msg_queue[i] # issued[j])
                => Count(sent, j) = 1

\* what does hold of the hand-off: issue order at every back-end and on
\* the wire, and no message sent twice
HandOffInOrder ==
    /\ \A b \in BackEnds : InIssueOrder(handled[b])
    /\ InIssueOrder(sent)
    /\ \A b \in BackEnds : InIssueOrder([j \in 1 .. Len(net[b]) |-> net[b][j].id])

SpecOrd == Init /\ [][NextOrd]_vars

\* s is a prefix of t
IsPrefix(s, t) == Len(s) <= Len(t) /\ \A j \in 1 .. Len(s) : s[j] = t[j]

(***************************************************************************)
(* C6: for a single rank the records sent upward appear in the order in    *)
(* which the debugger produced them, result and out-of-band records        *)
(* alike: what has been sent is a prefix of what was produced.             *)
(***************************************************************************)
C6_UpwardInProducedOrder == IsPrefix(upward, produced)

\* what does hold: the read() of pgdb/src/mi/gdbmi.py keeps the order
PgdbReadKeepsOrder == reader = "pgdb_mi" => IsPrefix(upward, produced)

SpecLife == Init /\ [][NextLife]_vars

C8_QuitWaitsForBackEnds ==
    (quit /\ been_shutdown) => (exit_sent /\ all_nodes_exited)

SpecMulti == Init /\ [][NextMulti]_vars

\* the messages the sources have sent
PostedMessages ==
    UNION {{posted[b][i].message : i \in 1 .. Len(posted[b])} : b \in BackEnds}
\* everything sent has gone through the overlay and the receiver
Drained ==
    /\ \A b \in BackEnds : stream_out[b] = <<>>
    /\ inbox = <<>>
    /\ rx_stack = <<>>
\* the messages delivered that came from source b, in order
RECURSIVE DeliveredFrom(_, _)
DeliveredFrom(b, q) ==
    IF q = <<>> THEN <<>>
    ELSE IF Head(q).rank = rank_of(b)
         THEN <<Head(q)>> \o DeliveredFrom(b, Tail(q))
         ELSE DeliveredFrom(b, Tail(q))

(***************************************************************************)
(* C9: when the frames of two sources interleave, a multi-message is       *)
(* rebuilt only from the payloads of its own source; the frames of the     *)
(* other source are neither consumed into it nor lost, so every message    *)
(* delivered is one that was sent, no payload is dropped on the way to the *)
(* stash, the receiver does not fail on the stash, and once everything has *)
(* been received every message sent has been delivered.                    *)
(***************************************************************************)
C9_PayloadsOfOwnSourceOnly ==
    (\A b \in BackEnds : \A i \in 1 .. Len(posted[b]) :
         \A j \in 1 .. Len(posted[b][i].frames) : posted[b][i].frames[j].tag = "MSG_TAG")
    =>
    /\ \A i \in 1 .. Len(delivered) : delivered[i] \in PostedMessages
    /\ \A i \in 1 .. Len(multi_stash) : multi_stash[i] # NoMessage
    /\ rx_crashed = "no"
    /\ Drained => \A b \in BackEnds :
                     DeliveredFrom(b, delivered) = [i \in 1 .. Len(posted[b]) |-> posted[b][i].message]

\* the sources that have sent something
Senders == {b \in BackEnds : posted[b] # <<>>}
\* frames is a multi-header carrying N followed by the N slices of msg
IsHeaderAndPayloads(frames, msg) ==
    /\ Len(frames) >= 2
    /\ LET header == loads(frames[1].data)
       IN /\ header.msg_type = "MULTI_MSG"
          /\ header.num = Len(frames) - 1
    /\ \A j \in 2 .. Len(frames) : loads(frames[j].data).msg_type = "MULTI_PAYLOAD_MSG"
    /\ \E split_len \in 1 .. multi_len :
          /\ Len(Slices(msg, split_len)) = Len(frames) - 1
          /\ \A j \in 2 .. Len(frames) :
                loads(frames[j].data).data = Slices(msg, split_len)[j - 1]
\* source b has sent a message that went out as more than one frame
HasSplit(b) == \E i \in 1 .. Len(posted[b]) : Len(posted[b][i].frames) > 1
\* what C10 says of the messages of one source when no other source sends
SplitRoundTrip(b) ==
    /\ \A i \in 1 .. Len(posted[b]) :
          LET p == posted[b][i]
          IN /\ Len(p.split_input) <= multi_len
                  => (Len(p.frames) = 1 /\ p.frames[1].data = p.split_input)
             /\ Len(p.split_input) > multi_len
                  => IsHeaderAndPayloads(p.frames, p.split_input)
    /\ HasSplit(b) =>
          /\ rx_crashed = "no"
          /\ \A i \in 1 .. Len(delivered) : delivered[i] \in PostedMessages
          /\ Drained => delivered = [i \in 1 .. Len(posted[b]) |-> posted[b][i].message]

(***************************************************************************)
(* C10: a serialized message no longer than the split threshold is sent as *)
(* one frame, a longer one as a multi-header carrying N followed by        *)
(* exactly N payload chunks in order, and what the receiver reassembles    *)
(* deserializes to the message that was sent (one source sending).         *)
(***************************************************************************)
C10_SplitAndReassemble ==
    \A b \in BackEnds : Senders = {b} => SplitRoundTrip(b)

\* the same for the GDBBE.mrnet_stream_send / GDBFE.multi_handler pair only
OldPairSplitAndReassemble ==
    receiver = "gdbfe" => \A b \in BackEnds : Senders = {b} => SplitRoundTrip(b)

\* the frames of a posted message carry the compressed tag
SentCompressed(p) == \A j \in 1 .. Len(p.frames) : p.frames[j].tag = "COMP_TAG"
\* the frames of a posted message carry the plain tag
SentPlain(p) == \A j \in 1 .. Len(p.frames) : p.frames[j].tag = "MSG_TAG"

(***************************************************************************)
(* C11: with Communicator.send and recv, compression is applied to a       *)
(* serialized message iff its size is at least the compression threshold,  *)
(* and a compressed frame is decompressed before it is deserialized, so    *)
(* that a message of any size sent by one source is received as the        *)
(* original: the receiver does not fail, delivers only messages that were  *)
(* sent, and has delivered them all once everything has been received.     *)
(***************************************************************************)
C11_CompressionRoundTrip ==
    receiver = "comm" =>
        \A b \in BackEnds : Senders = {b} =>
            /\ \A i \in 1 .. Len(posted[b]) :
                  LET p == posted[b][i]
                  IN IF Len(dumps(p.message)) >= compress_threshold
                     THEN SentCompressed(p)
                     ELSE SentPlain(p)
            /\ rx_crashed = "no"
            /\ \A i \in 1 .. Len(delivered) : delivered[i] \in PostedMessages
            /\ Drained => delivered = [i \in 1 .. Len(posted[b]) |-> posted[b][i].message]

\* what does hold of Communicator: the tag follows the threshold, and a
\* message below the threshold is received as the original
PlainRoundTrip ==
    receiver = "comm" =>
        \A b \in BackEnds : Senders = {b} =>
            /\ \A i \in 1 .. Len(posted[b]) :
                  LET p == posted[b][i]
                  IN IF Len(dumps(p.message)) >= compress_threshold
                     THEN SentCompressed(p)
                     ELSE SentPlain(p)
            /\ (\A i \in 1 .. Len(posted[b]) : SentPlain(posted[b][i])) =>
                  /\ rx_crashed = "no"
                  /\ Drained => delivered = [i \in 1 .. Len(posted[b]) |-> posted[b][i].message]

SpecRelay == Init /\ [][NextRelay]_vars

\* the messages of other kinds among those the relay has filtered so far
FilteredOthers ==
    SelectSeq(SubSeq(arrived, 1, Len(arrived) - Len(relay_in)), IsOtherMsg)
\* the messages of other kinds the relay has sent on
ForwardedOthers == SelectSeq(relay_out, IsOtherMsg)
\* a message without its _send_time
WithoutTime(msg) == [msg_type |-> msg.msg_type, record |-> msg.record]

(***************************************************************************)
(* C12 as stated: every message of a kind other than out leaves the relay  *)
(* unmodified, and these messages leave in the order they arrived,         *)
(* whatever out messages are interleaved with them.                        *)
(***************************************************************************)
C12_OthersPassUnmodified == ForwardedOthers = FilteredOthers

(***************************************************************************)
(* C12 amended: the messages of other kinds leave in arrival order with    *)
(* every attribute unchanged except _send_time, which is never later than  *)
(* the sender's and is present iff the sender set it.                      *)
(***************************************************************************)
C12_OthersPassInOrder ==
    /\ Len(ForwardedOthers) = Len(FilteredOthers)
    /\ \A j \in 1 .. Len(ForwardedOthers) :
          /\ WithoutTime(ForwardedOthers[j]) = WithoutTime(FilteredOthers[j])
          /\ ForwardedOthers[j]._send_time <= FilteredOthers[j]._send_time
          /\ (ForwardedOthers[j]._send_time = NoTime) = (FilteredOthers[j]._send_time = NoTime)

\* C12 witness: two different messages of other kinds have been forwarded
\* from a batch that held an out message between them
C12_Witness ==
    /\ relay_in = <<>>
    /\ Len(arrived) = 3
    /\ IsOtherMsg(arrived[1]) /\ IsOutMsg(arrived[2]) /\ IsOtherMsg(arrived[3])
    /\ arrived[1].msg_type # arrived[3].msg_type
    /\ Len(relay_out) = 3
    /\ IsOutMsg(relay_out[3])

SpecFilter == Init /\ [][NextFilter]_vars

(***************************************************************************)
(* C13: a back-end's filter is a set: a record is dropped before being     *)
(* sent upward iff its subtype was filtered (or is filtered by default)    *)
(* and has not been unfiltered since, so one unfilter of a subtype undoes  *)
(* any number of earlier identical filter messages.                        *)
(***************************************************************************)
C13_FilterIsASet ==
    /\ last_record.dropped = last_record.requested
    /\ \A subtype \in Subtypes : is_filterable(subtype) = (subtype \in requested)

\* what does hold: a record is dropped iff its subtype is in the list, and
\* nothing outside the requested set is ever dropped
DroppedWasRequestedOnce ==
    \A subtype \in Subtypes : subtype \in requested => is_filterable(subtype)

SpecSBD == Init /\ [][NextSBD]_vars

\* the back-end holds the semaphore for a request it passed on
Holding(b) == current_load_file[b] # NoPath
\* the request b holds the semaphore for is on its way to the front-end,
\* or its answer is on its way back
InProgress(b) ==
    \/ \E i \in 1..Len(fe_load_requests) :
          fe_load_requests[i] = LoadFile(b, current_load_file[b])
    \/ \E i \in 1..Len(be_file_data[b]) :
          be_file_data[b][i].filename = current_load_file[b]
\* the file the debugger of b last asked for
Asked(b) == abspath(gdb_request[b])
\* the back-end has finished with the request of b's debugger
Answered(b) ==
    /\ sbd_decision[b] # "none"
    /\ ~Holding(b)

\* C14: when two back-ends ask for the same acceptable file at the same
\* time, the front-end reads it once and broadcasts it; both requests are
\* served (neither back-end keeps its semaphore with nothing on the way),
\* and each back-end writes the file's bytes and releases its semaphore.
C14_ConcurrentRequestsServed ==
    /\ \A f \in Files : isfile(f) => file_reads[f] <= 1
    /\ \A b1, b2 \in BackEnds :
          (/\ b1 # b2
           /\ Holding(b1) /\ Holding(b2)
           /\ current_load_file[b1] = current_load_file[b2]
           /\ isfile(current_load_file[b1]))
          => InProgress(b1) /\ InProgress(b2)
    /\ \A b \in BackEnds :
          (/\ Answered(b)
           /\ sbd_decision[b] \in {"forwarded", "cached"}
           /\ isfile(Asked(b)))
          => /\ gdb_mem[b] = FileContents[Asked(b)]
             /\ gdb_semaphore[b] = 1

\* C15: a request that fails (refused by load_file_check, or for a file
\* the front-end cannot read) ends with "error" in the shared region and
\* the semaphore released; while it is not finished, it is on its way.
C15_FailuresEndWithError ==
    \A b \in BackEnds :
        /\ sbd_decision[b] = "refused"
           => gdb_mem[b] = ErrorToken /\ gdb_semaphore[b] = 1
        /\ (Holding(b) /\ ~isfile(current_load_file[b])) => InProgress(b)
        /\ (/\ Answered(b)
            /\ sbd_decision[b] \in {"forwarded", "cached"}
            /\ ~isfile(Asked(b)))
           => gdb_mem[b] = ErrorToken /\ gdb_semaphore[b] = 1

\* C16: the semaphore is never released while not held (its value never
\* exceeds one), and it is held only for a passed-on request whose answer
\* is still to come, so that every acquire meets its release.
C16_AcquireReleasePaired ==
    \A b \in BackEnds :
        /\ gdb_semaphore[b] \in {0, 1}
        /\ gdb_semaphore[b] = 0 => Holding(b) /\ InProgress(b)
        /\ Holding(b) => gdb_semaphore[b] = 0

\* what holds of the three when the name LOAD_FILE resolves
ServedWhenNameResolves ==
    load_file_lookup # "NameError"
    => /\ C14_ConcurrentRequestsServed
       /\ C15_FailuresEndWithError
       /\ C16_AcquireReleasePaired

Refusals(filename) ==
    \/ EndsWith(basename(filename), DotGdb)
    \/ EndsWith(basename(filename), DotPy)
    \/ StartsWith(filename, Lib64)

SpecVarprint == Init /\ [][NextVarprint]_vars

VarprintIds == 1..Len(varprints)
\* no reply of the debugger is awaited for the request any more
Ended(q) == varprints[q].stage = "ended"

\* C18: every varprint request of a rank gets exactly one varprint result,
\* the variable object or an error: never two, and never none once the
\* back-end awaits no further reply for it.
C18_ExactlyOneResult ==
    \A q \in VarprintIds :
        /\ Len(varprints[q].results) <= 1
        /\ Ended(q) => Len(varprints[q].results) = 1

\* a request that got only good replies never has two results
GoodRepliesAtMostOneResult ==
    \A q \in VarprintIds :
        varprints[q].bad_at = 0 => Len(varprints[q].results) <= 1

\* C19: a var-list-children reply that is malformed or lacks a field ends
\* the search of that request with one error result: no further
\* var-list-children is sent and no further result.
C19_MalformedReplyEndsSearch ==
    \A q \in VarprintIds :
        varprints[q].bad_at > 0
        => /\ Ended(q)
           /\ varprints[q].results = <<"bad data">>
           /\ varprints[q].lists = varprints[q].bad_at

\* C19, the part about the others: a reply handled for one request changes
\* no other request and no other rank's table
OthersUnaffected ==
    [][\A q \in VarprintIds :
          varprints'[q] # varprints[q]
          => /\ \A p \in VarprintIds \ {q} : varprints'[p] = varprints[p]
             /\ \A r \in VarprintRanks \ {varprints[q].rank} :
                   varobjs'[r] = varobjs[r]]_vars

\* C20: a varprint of a name that is in the table and whose children have
\* all been listed, also by an earlier varprint that lifted the cap on the
\* number of children, is answered with the stored object and sends no
\* var-list-children.
C20_ListedIsReturned ==
    \A q \in VarprintIds :
        varprints[q].found_complete
        => /\ varprints[q].lists = 0
           /\ varprints[q].stage \notin {"update", "create"}
              => varprints[q].results = <<"varobj">>

\* C20 for a variable that never had more children than the cap
ListedWithinCapIsReturned ==
    \A q \in VarprintIds :
        (/\ varprints[q].found_complete
         /\ ~varobjs[varprints[q].rank][varprints[q].name].more_children)
        => varprints[q].lists = 0

\* the request is the last one of its rank
LatestOnRank(q) ==
    \A p \in VarprintIds : p > q => varprints[p].rank # varprints[q].rank
\* the request has ended with the variable object and saw no bad reply
GoodEnded(q) ==
    /\ Ended(q)
    /\ varprints[q].bad_at = 0
    /\ varprints[q].results = <<"varobj">>
\* the search of the request began with var-create (varprint_start), or
\* at a variable the table held (varprint_start_no_create)
Created(q) ==
    varprints[q].branch_depth =
        varprint_max_depth + get_name_depth(varprints[q].name)
NotCreated(q) ==
    varprints[q].branch_depth = get_name_depth(varprints[q].name)
\* how many children of the name the table of the rank holds
Attached(r, name) ==
    Cardinality({k \in 1..num_child(name) :
                    varobjs[r][gdb_children(name)[k]].present})
\* the variables with more children than the default cap
OverCap == {n \in VarprintNames \cap TreeNames :
               num_child(n) > varprint_max_children}

\* C21: creating a variable with more children than the default cap gives
\* an object with exactly as many children as the cap and more_children
\* set; a following explicit varprint of it lifts the cap and ends with
\* all of its children attached.
C21_CapThenComplete ==
    \A q \in VarprintIds :
        (/\ varprints[q].name \in OverCap
         /\ GoodEnded(q)
         /\ LatestOnRank(q))
        => LET r == varprints[q].rank
               name == varprints[q].name
           IN  /\ Created(q)
                  => /\ Attached(r, name) = varprint_max_children
                     /\ varobjs[r][name].more_children
               /\ NotCreated(q) => Attached(r, name) = num_child(name)
\* C21 witness: u, with more children than varprint_dfs searches below,
\* was created by one request and listed in full by the next one
C21_Witness ==
    \E q1, q2 \in VarprintIds :
        /\ q1 < q2
        /\ varprints[q1].rank = varprints[q2].rank
        /\ varprints[q1].name = VarU /\ varprints[q2].name = VarU
        /\ GoodEnded(q1) /\ Created(q1)
        /\ GoodEnded(q2) /\ NotCreated(q2) /\ LatestOnRank(q2)
        /\ Attached(varprints[q2].rank, VarU) = num_child(VarU)

\* the child lies on the branch of the name: one is a prefix of the other
OnBranch(child, name) ==
    \A k \in 1..Len(child) : k <= Len(name) => child[k] = name[k]
\* the bound C22 gives for the push of a child below a parent
WithinDepth(q, push) ==
    \/ is_pseudochild(push[1])
    \/ push[2] <= varprint_max_depth
    \/ /\ OnBranch(push[1], varprints[q].name)
       /\ push[2] <= varprint_max_depth + get_name_depth(varprints[q].name)

\* C22: a child that is no pseudo-child is pushed for listing only if its
\* parent's depth is at most the configured maximal depth, or it lies on
\* the branch of the requested name and the depth is at most the maximal
\* depth plus the depth of the name; whichever way the search started.
C22_DepthBound ==
    \A q \in VarprintIds :
        \A push \in varprints[q].pushes : WithinDepth(q, push)

\* C22 for the searches that began with var-create
CreatedDepthBound ==
    \A q \in VarprintIds :
        Created(q) => \A push \in varprints[q].pushes : WithinDepth(q, push)

SpecToken == Init /\ [][NextToken]_vars

\* C23: two commands outstanding on one debugger never share a token,
\* whether the front-end gave the token or the back-end allocated it
\* (token 0 included), and each reply is dispatched to the continuation
\* registered for its own command and to no other.
C23_TokensMatchReplies ==
    /\ \A i, j \in 1..Len(gdb_outstanding) :
          i # j => gdb_outstanding[i].token # gdb_outstanding[j].token
    /\ \A d \in dispatched : d.invoked = d.registered

\* C23 among the commands the back-end sends by itself
LocalTokensDistinct ==
    \A i, j \in 1..Len(gdb_outstanding) :
        (/\ i # j
         /\ gdb_outstanding[i].cmd[1] = "be"
         /\ gdb_outstanding[j].cmd[1] = "be")
        => gdb_outstanding[i].token # gdb_outstanding[j].token


(***************************************************************************)
(* The record handler registry (gdbmi_recordhandler.py)                    *)
(***************************************************************************)
SpecHandler == Init /\ [][NextHandler]_vars

\* the ids invoked for the last record handled
InvokedHids == {last_handled.invoked[i][1] : i \in DOMAIN last_handled.invoked}
\* the ids that were registered, when the last record was handled, for a
\* token or a type set the record answers to
RegisteredFor(record) ==
    {hid \in 0..(last_handled.registered - 1) :
        IF registrations[hid + 1].token # NoToken
        THEN registrations[hid + 1].token = record.token
        ELSE registrations[hid + 1].types \subseteq record.types}
HandledAfterRemoval ==
    last_handled.raised # "nothing handled" /\ last_handled.removed # {}

\* C24: after remove_handler(hid) the handler registered under hid is not
\* invoked for any later record, and every other registered token or type
\* handler is still invoked for its records.
C24_RemovedGoneOthersKept ==
    HandledAfterRemoval =>
        /\ InvokedHids \cap last_handled.removed = {}
        /\ RegisteredFor(last_handled.record) \ last_handled.removed
              \subseteq InvokedHids

\* What the code does: a record whose token has no token handler reaches
\* every type handler registered for a subset of its types, removed or not.
TypeHandlersAlwaysInvoked ==
    last_handled.raised = "none" =>
        InvokedHids = {hid \in RegisteredFor(last_handled.record) :
                          registrations[hid + 1].token = NoToken}

(***************************************************************************)
(* The Interval algebra (src/pgdb/src/interval.py)                         *)
(***************************************************************************)
SpecInterval == Init /\ [][NextInterval]_vars

\* the integers the checks range over
IntRange == 0 .. (Max2(MaxInt, 9) + 1)
\* sorted, pairwise disjoint and coalesced: every tuple is low <= high and
\* the next tuple starts at least two past the end of this one
Coalesced(intervals) ==
    \A j \in 1 .. Len(intervals) :
        /\ intervals[j][1] <= intervals[j][2]
        /\ j < Len(intervals) => intervals[j][2] + 1 < intervals[j + 1][1]
Contains(intervals, S) ==
    \A x \in IntRange : in_interval(intervals, x) <=> x \in S
Constructed == interval_op = "init"
HasDuplicates(lis) ==
    \E i \in 1 .. Len(lis), j \in 1 .. Len(lis) : i # j /\ lis[i] = lis[j]

\* C25: for every list S of non-negative integers, in any order and with
\* duplicates allowed, Interval(lis=S) is sorted, pairwise disjoint and
\* coalesced, and contains x iff x is in S.
C25_ConstructedCoalesced ==
    Constructed =>
        /\ Coalesced(interval_self)
        /\ Contains(interval_self, SeqToSet(interval_lis))

\* What the code does: a list without duplicates, in any order, gives a
\* coalesced Interval of exactly its integers.
DistinctListCoalesced ==
    Constructed /\ ~HasDuplicates(interval_lis) =>
        /\ Coalesced(interval_self)
        /\ Contains(interval_self, SeqToSet(interval_lis))
        /\ MemberSet(interval_self) = SeqToSet(interval_lis)

\* C26: A u B = B u A and A n B = B n A as Intervals for all A and B, the
\* empty Interval included; a union with the empty Interval returns the
\* non-empty operand and an intersection with it returns the empty Interval.
C26_UnionIntersectCommute ==
    /\ interval_op = "union" =>
          /\ interval_result.kind = "Interval"
          /\ interval_result.intervals = union(interval_other, interval_self)
          /\ interval_other = <<>> => interval_result.intervals = interval_self
          /\ interval_self = <<>> => interval_result.intervals = interval_other
    /\ interval_op = "intersect" =>
          /\ interval_result.intervals = intersect(interval_other, interval_self)
          /\ (interval_self = <<>> \/ interval_other = <<>>)
                => interval_result.intervals = <<>>

\* What the code does: on two non-empty coalesced Intervals union commutes
\* and holds the integers of either, and intersect, with or without an empty
\* operand, commutes and holds the integers of both.
NonEmptyUnionCommutes ==
    /\ ( /\ interval_op = "union"
         /\ interval_self # <<>> /\ interval_other # <<>>
         /\ Coalesced(interval_self) /\ Coalesced(interval_other) ) =>
          /\ interval_result.kind = "Interval"
          /\ interval_result.intervals = union(interval_other, interval_self)
          /\ Coalesced(interval_result.intervals)
          /\ MemberSet(interval_result.intervals) =
                MemberSet(interval_self) \cup MemberSet(interval_other)
    /\ ( /\ interval_op = "intersect"
         /\ Coalesced(interval_self) /\ Coalesced(interval_other) ) =>
          /\ interval_result.intervals = intersect(interval_other, interval_self)
          /\ Coalesced(interval_result.intervals)
          /\ MemberSet(interval_result.intervals) =
                MemberSet(interval_self) \cap MemberSet(interval_other)

\* C27: A.difference(B) holds exactly the integers in A and not in B, so
\* (A - B) n B is empty, and Interval([1,2,3,5,6,9]) - Interval([2,6,9]) is
\* [(1,1),(3,3),(5,5)].
C27_DifferenceExact ==
    interval_op = "difference" =>
        /\ MemberSet(interval_result.intervals) =
              MemberSet(interval_self) \ MemberSet(interval_other)
        /\ intersect(interval_result.intervals, interval_other) = <<>>
        /\ ( /\ interval_self = Interval(ExampleA)
             /\ interval_other = Interval(ExampleB) ) =>
              interval_result.intervals = <<<<1, 1>>, <<3, 3>>, <<5, 5>>>>

\* C28: two Intervals compare equal iff their arrays are identical; an
\* Interval never equals one whose array is a strict prefix of its own, and
\* a non-empty Interval never equals the empty one.
C28_EqualIffIdentical ==
    interval_op = "eq" =>
        (interval_result.equal <=> interval_self = interval_other)

\* What the code does: == decides identity for arrays of the same length,
\* and is True whenever one array is a prefix of the other.
EqualUpToShorter ==
    interval_op = "eq" =>
        /\ Len(interval_self) = Len(interval_other) =>
              (interval_result.equal <=> interval_self = interval_other)
        /\ interval_result.equal <=>
              LET n == Min2(Len(interval_self), Len(interval_other))
              IN  SubSeq(interval_self, 1, n) = SubSeq(interval_other, 1, n)

(***************************************************************************)
(* Merge in both orders and groupings (gdbmiarec.py)                       *)
(***************************************************************************)
SpecMerge == Init /\ [][NextMerge]_vars

Compared == merge_op \in {"orders", "groupings"}
\* the number of ranks of arec whose record holds value at key
Tally(arec, key, value) ==
    Cardinality({r \in MemberSet(arec.ids) :
                    get_substitution(arec, key, r) = value})
\* the value held by strictly more ranks than any other, if there is one
UniqueMaximum(arec, key) ==
    {v \in {get_substitution(arec, key, r) : r \in MemberSet(arec.ids)} :
        \A r \in MemberSet(arec.ids) :
            get_substitution(arec, key, r) # v =>
                Tally(arec, key, get_substitution(arec, key, r))
                    < Tally(arec, key, v)}
SameRanksAndRecords(x, y) ==
    /\ MemberSet(x.ids) = MemberSet(y.ids)
    /\ MemberSet(x.ids) = OperandRanks(operands) \/ merge_op = "orders"
    /\ \A r \in MemberSet(x.ids) : get_record(x, r) = get_record(y, r)
SameDefaults(x, y) ==
    \A k \in 1 .. Len(x.subs) :
        UniqueMaximum(x, k) # {} => x.subs[k].d = y.subs[k].d

\* C29: for A, B, C with pairwise disjoint rank sets, A+B and B+A, and
\* (A+B)+C and A+(B+C), have the same rank set, reconstruct the same record
\* at every rank, and have the same default wherever the maximal tally is
\* unique.
C29_MergeCommutesAssociates ==
    Compared =>
        /\ SameRanksAndRecords(merge_results[1], merge_results[2])
        /\ SameDefaults(merge_results[1], merge_results[2])

\* What the code does: either order and either grouping give the same rank
\* set and the same record at every rank.
MergeSameRecords ==
    Compared => SameRanksAndRecords(merge_results[1], merge_results[2])

(***************************************************************************)
(* C30: two aggregated records are merged only if their shapes (type,      *)
(* subtype set, field-name set) are equal: every rank of a record in       *)
(* flight contributed a record with the field names of that record.        *)
(***************************************************************************)
C30_OnlyEqualShapesMerge ==
    \A arec \in Arecs : OneShape(arec)

\* What the code does: the records merged into one have the same
\* identification and the same number of leaf values.
MergedShareIdentification ==
    \A arec \in Arecs :
        \A r \in MemberSet(arec.ids) :
            ShapeOf(orig[r].names) = ShapeOf(arec.names)

(***************************************************************************)
(* The output history (src/src/gdbfe.py)                                   *)
(***************************************************************************)
SpecHistory == Init /\ [][NextHistory]_vars

\* the last n elements of a sequence, newest first
NewestFirst(s, n) == [j \in 1 .. n |-> s[Len(s) + 1 - j]]

\* C31: after any sequence of incoming batches the output history holds at
\* most history_length entries, the most recent record at index 0, and the
\* oldest entries are the ones that were discarded.
C31_HistoryBounded ==
    /\ Len(output_history) <= history_length
    /\ output_history =
          NewestFirst(processed, Min2(Len(processed), history_length))

\* C31 witness: more records than the history holds were processed, and the
\* history is full with the newest of them first.
C31_Witness ==
    /\ Len(processed) > history_length
    /\ Len(output_history) = history_length
    /\ output_history[1] = processed[Len(processed)]

(***************************************************************************)
(* The proc prefix (src/src/gdbfe.py, src/pgdb/src/gdbfe.py)               *)
(***************************************************************************)
SpecProc == Init /\ [][NextProc]_vars

\* the ranks a specification names
NamedRanks(spec) ==
    IF spec.all THEN Ranks
    ELSE UNION {spec.groups[j][1] .. spec.groups[j][2] :
                   j \in 1 .. Len(spec.groups)}
ProcHandled == proc_result.outcome \notin {"none", "queued"}

\* C32: a proc prefix sends the command to exactly the ranks its
\* specification names, all ranks for "all" or "-1", overlapping or repeated
\* items once; a specification naming a rank outside the job sends nothing.
C32_ProcTargetsExact ==
    ProcHandled =>
        proc_result.ranks =
            IF NamedRanks(proc_result.spec) \subseteq Ranks
            THEN NamedRanks(proc_result.spec) ELSE {}

\* What the code does: in the newer front-end a specification outside the
\* job sends nothing and a single group inside it reaches exactly its ranks;
\* in the older one a list specification reaches exactly its ranks unless
\* its tuples start with those of all_ranks without being equal to them.
ProcListTargets ==
    ProcHandled /\ ~proc_result.spec.all =>
        LET targets == parse_proc_spec(proc_result.spec).v
        IN  /\ proc_result.frontend = "src"
                 /\ ~(NamedRanks(proc_result.spec) \subseteq Ranks)
                 => proc_result.ranks = {}
            /\ proc_result.frontend = "src" /\ Len(targets) = 1
                 => C32_ProcTargetsExact
            /\ proc_result.frontend = "pgdb/src"
                 /\ (IntervalEq(targets, all_ranks) => targets = all_ranks)
                 => C32_ProcTargetsExact

(***************************************************************************)
(* Claims about the parser.                                                *)
(***************************************************************************)
SpecParser == Init /\ [][NextParser]_vars
SpecRecords == Init /\ [][NextRecords]_vars

\* the line starts with an optional token and a record symbol
MatchesOutput(line) ==
    /\ DigitsLen(line) < Len(line)
    /\ line[DigitsLen(line) + 1] \in {"^"} \cup _async_record_symbols
                                      \cup _stream_record_symbols
Returned_record == last_parse.record.raised = "none"

\* C33: the parser never raises: parse_output returns normally for every
\* line, and a line it cannot parse becomes an unknown record carrying the
\* original text.
C33_ParserNeverRaises ==
    parser_pc = "parsed" => Returned_record

\* A line that does not start with a record symbol becomes an unknown
\* record carrying the line; a stream record carries the text behind its
\* symbol; a line with the symbol of a result record yields None or raises
\* ValueError or IndexError.
UnmatchedLinesUnknown ==
    parser_pc = "parsed" =>
        LET line == last_parse.line
            record == last_parse.record
        IN  /\ ~MatchesOutput(line)
                => /\ Returned_record
                   /\ record.type = "UNKNOWN"
                   /\ record.text = line
            /\ (MatchesOutput(line) /\ line[DigitsLen(line) + 1] = "~")
                => /\ Returned_record
                   /\ record.type = "CONSOLE"
                   /\ record.text = From(line, DigitsLen(line) + 1)
            /\ (MatchesOutput(line) /\ line[DigitsLen(line) + 1] = "^")
                => \/ record = NoneRecord
                   \/ record.raised \in {"ValueError", "IndexError"}

\* a == b for two records: no record class defines __eq__ or __hash__, so
\* a record is equal to itself only and its hash is that of its identity
RecordEq(a, b) == a.id = b.id
\* what a record shows of itself
Shown(record) ==
    <<record.type, record_subtypes(record), record.token, record_fields(record)>>
\* what the record of the line shows when nothing was parsed before it
ShownAlone(line) ==
    LET record == GDBMIParser_parse_output(line, {}, <<>>, 1)
    IN  <<record.type,
          IF record.own THEN record.subtypes ELSE SubtypesAfter(line, {}),
          record.token,
          IF record.own THEN record.fields ELSE FieldsAfter(line, <<>>)>>
BothParsed ==
    /\ parser_pc = "parsed"
    /\ kept_parse # NoParse
    /\ kept_parse.line = last_parse.line
    /\ kept_parse.record.raised = "none"
    /\ Returned_record

\* C34: two parses of the same line yield equal records, whatever was
\* parsed before or between them: type, subtypes and fields of a record
\* depend only on its own line, never on records created earlier.
C34_ParsesEqual ==
    /\ BothParsed => RecordEq(kept_parse.record, last_parse.record)
    /\ (parser_pc = "parsed" /\ Returned_record)
          => Shown(last_parse.record) = ShownAlone(last_parse.line)

\* Type and token of what a line yields depend on the line only, and so do
\* the subtypes and fields of a stream record; every other record shows
\* the subtypes and fields of all records created so far.
OwnLineOnly ==
    (parser_pc = "parsed" /\ Returned_record) =>
        LET record == last_parse.record
            alone == ShownAlone(last_parse.line)
        IN  /\ record.type = alone[1]
            /\ record.token = alone[3]
            /\ record.type = "CONSOLE" => Shown(record) = alone
            /\ record.type \notin {"CONSOLE", "None"}
                => /\ alone[2] \subseteq record_subtypes(record)
                   /\ record_subtypes(record) = class_subtypes
                   /\ record_fields(record) = class_fields

(***************************************************************************)
(* Claims about the topology of the network.                               *)
(***************************************************************************)
SpecTopo == Init /\ [][NextTopo]_vars

\* ceil(n / k)
Ceil(n, k) == (n + k - 1) \div k
\* the hosts that appear as children in the topology file
RelayNodes ==
    UNION {SeqToSet(topo_result.topology[i][2]) :
              i \in 1 .. Len(topo_result.topology)}
Built == topo_pc = "done" /\ topo_result.fn = "comm" /\ ~topo_result.exited

\* C35: for a set of back-end hosts and branching factor k the front-end
\* uses exactly ceil(|hosts| / k) relay nodes, also when |hosts| is a
\* multiple of k and when |hosts| < k.
C35_RelayNodesCeil ==
    Built => Cardinality(RelayNodes)
                = Ceil(Len(topo_result.lmon_hosts), topo_result.branch_factor)

\* The front-end asks for floor(|hosts| / k) + 1 nodes and uses the first
\* that many of the host list, all of them if there are fewer: ceil(|hosts|
\* / k) nodes if k does not divide |hosts| or k is 1, one more otherwise.
RelayNodesFloorPlusOne ==
    Built =>
        LET n == Len(topo_result.lmon_hosts)
            k == topo_result.branch_factor
        IN  /\ topo_result.num_nodes = (n \div k) + 1
            /\ RelayNodes = SeqToSet(topo_result.host_list)
            /\ Cardinality(RelayNodes) = Min2(topo_result.num_nodes, n)
            /\ (n % k # 0 \/ k = 1) => Cardinality(RelayNodes) = Ceil(n, k)
            /\ (n % k = 0 /\ k > 1) => Cardinality(RelayNodes) = Ceil(n, k) + 1

\* C36: if the host of the front-end is the host of a back-end, at any
\* position of the host list, topology construction ends with an error and
\* no network is created.
C36_SharedHostRefused ==
    (topo_pc = "done"
        /\ topo_result.cur_host \in SeqToSet(topo_result.lmon_hosts))
        => topo_result.exited /\ ~topo_result.network

\* GDBFE.construct_topology refuses a front-end on any back-end host; the
\* communicator refuses it exactly if the host is among the first
\* num_nodes of the list; after a refusal there is neither a topology nor
\* a network.
SharedRelayHostRefused ==
    topo_pc = "done" =>
        /\ topo_result.fn = "gdbfe"
            => (topo_result.exited
                  <=> topo_result.cur_host \in SeqToSet(topo_result.lmon_hosts))
        /\ topo_result.fn = "comm"
            => (topo_result.exited
                  <=> topo_result.cur_host
                         \in SeqToSet(Take(topo_result.lmon_hosts,
                                           topo_result.num_nodes)))
        /\ topo_result.exited
            => topo_result.topology = <<>> /\ ~topo_result.network

(***************************************************************************)
(* Claims about reading the debugger's output.                             *)
(***************************************************************************)
SpecReader == Init /\ [][NextReader]_vars

\* what read() has taken from the debugger
Consumed == SubSeq(rd_written, 1, Len(rd_written) - Len(rd_pipe))
\* the complete lines of a stream and the incomplete line behind them
CompleteLines(stream) ==
    IF LastNl(stream) = 0 THEN <<>>
    ELSE SplitLines(SubSeq(stream, 1, LastNl(stream) - 1))
TrailingLine(stream) == SubSeq(stream, LastNl(stream) + 1, Len(stream))
\* s is the beginning of t
IsPrefixOf(s, t) == Len(s) <= Len(t) /\ s = SubSeq(t, 1, Len(s))

\* C37: however the output of the debugger is cut into chunks, every
\* complete line is parsed exactly once and in stream order, and an
\* incomplete trailing line stays in the buffer, unparsed and unmodified,
\* until its newline arrives.
C37_LinesParsedOnce ==
    /\ rd_parsed = CompleteLines(Consumed)
    /\ rd_buffer = TrailingLine(Consumed)

\* The incomplete trailing line is always in the buffer as it was written;
\* as long as no line raises in the parser, the lines parsed are the
\* complete lines read, once each and in stream order; after an exception
\* they are the complete lines of the chunks before.
LinesParsedUntilException ==
    /\ rd_buffer = TrailingLine(Consumed)
    /\ ~rd_raised => rd_parsed = CompleteLines(Consumed)
    /\ rd_raised => /\ IsPrefixOf(rd_parsed, CompleteLines(Consumed))
                    /\ rd_parsed # CompleteLines(Consumed)
                    /\ LinesRaise(CompleteLines(Consumed))

(***************************************************************************)
(* Claims about block and unblock.                                         *)
(***************************************************************************)
SpecBlock == Init /\ [][NextBlock]_vars

Blocked == SeqToSet(fe_blocks)
NoRankTwice ==
    \A i, j \in 1 .. Len(fe_blocks) : fe_blocks[i] = fe_blocks[j] => i = j

\* C38: after block S no output of a rank in S is printed until the rank
\* is unblocked; after unblock T no rank of T is blocked and every blocked
\* rank outside T stays blocked; block never records a rank twice.
C38_BlockUnblockExact ==
    /\ blk_out.printed => ~blk_out.blocked
    /\ blk_last.op = "block" /\ blk_last.outcome = "done"
          => NamedRanks(blk_last.spec) \cap Ranks \subseteq Blocked
    /\ blk_last.op = "unblock"
          => /\ NamedRanks(blk_last.spec) \cap Blocked = {}
             /\ SeqToSet(blk_last.before) \ NamedRanks(blk_last.spec)
                   \subseteq Blocked
    /\ NoRankTwice

\* No rank is ever recorded twice; block a-b blocks the ranks a..b of the
\* job and no other; pgdb/src/gdbfe.py prints no output of a blocked rank;
\* unblock removes one rank exactly and never blocks a rank.
BlockExactUnblockOne ==
    /\ NoRankTwice
    /\ blk_out.frontend = "pgdb" => (blk_out.printed <=> ~blk_out.blocked)
    /\ blk_last.op = "block" /\ blk_last.outcome = "done"
          => Blocked = SeqToSet(blk_last.before)
                          \cup (NamedRanks(blk_last.spec) \cap Ranks)
    /\ blk_last.op = "unblock"
          => /\ Blocked \subseteq SeqToSet(blk_last.before)
             /\ (~blk_last.spec.all
                 /\ Cardinality(NamedRanks(blk_last.spec)
                                   \cap SeqToSet(blk_last.before)) <= 1)
                   => Blocked = SeqToSet(blk_last.before)
                                   \ NamedRanks(blk_last.spec)

(***************************************************************************)
(* Claims about the lock of the communicator.                              *)
(***************************************************************************)
SpecLock == Init /\ [][NextLock]_vars

\* C39: every call of recv and send returns with the lock released as
\* often as the call acquired it, on every return path, so a send of the
\* input thread is never blocked for ever by the transport thread.
C39_LockReleasedOnReturn ==
    /\ lock_return.after = lock_return.before
    /\ xport_pc \in {"loop", "dead"} => lock_holder # "transport"

\* recv returns with the lock as it found it when nothing is stashed, and
\* send when no stream fails; the transport thread holds the lock between
\* two calls only after recv has returned a stashed message or has been
\* left by an exception, once for each time that happened; the input
\* thread never holds it outside send.
LockReleasedUnlessStashed ==
    /\ lock_return.path # "stashed" => lock_return.after = lock_return.before
    /\ lock_return.path = "stashed"
          => lock_return.after = lock_return.before + 1
    /\ input_pc \in {"idle", "waiting"} => lock_holder # "input"
    /\ lock_holder = "none" <=> lock_depth = 0
    /\ (lock_return.fn = "none" /\ xport_pc # "dead")
          => (xport_pc \in {"loop", "recv", "multi"}
                 => lock_holder # "transport")

(***************************************************************************)
(* Claims about quit and the shutdown of the network.                      *)
(***************************************************************************)
\* C40: under every interleaving of the quit command of the input thread
\* and the loop of the transport thread, the debugger-exit broadcast is on
\* the network before the transport thread shuts the network down.
C40_ExitSentBeforeShutdown ==
    (quit /\ been_shutdown) => exit_sent

\* do_quit sets the quit flag before it sends: the exit broadcast is never
\* sent without the flag, and the input thread is ahead of its send only
\* with the flag set, where the transport thread can already see it.
QuitFlagPrecedesExit ==
    /\ exit_sent => quit
    /\ main_pc = "quit_send" => quit /\ ~exit_sent

====
